---------------------------- MODULE Spec2Model ----------------------------
(***************************************************************************)
(* DoveTrek route planner: the bitmask dynamic-programming solver          *)
(* (js/solver.js) and the route-card schedule (js/route-card.js).          *)
(*                                                                         *)
(* Times are minutes since midnight.  The JavaScript computes with doubles;*)
(* the inputs drawn here (whole kilometres, speeds dividing 60) make every *)
(* travel time a whole number of minutes, so integer arithmetic computes   *)
(* the values the program computes.  findMinSpeed (further down) runs      *)
(* solve at fractional speeds; there times are counted in a finer unit.    *)
(***************************************************************************)
EXTENDS Integers, Sequences, FiniteSets, TLC

VARIABLES
    data,            \* {checkpoints, startTime, finishWindow, distances}
    config,          \* {speed, dwellTime, excludedCps}
    pc,              \* position inside solve / handleSolve
    visitableCps,    \* solve: eligible checkpoints, in Map order
    startCp,         \* solve: name of the Start checkpoint ("" = null)
    finishCp,        \* solve: name of the Finish checkpoint ("" = null)
    dp,              \* solve: flat array, dp[mask * n + last]
    parent,          \* solve: flat array of back-pointers
    i,               \* solve: index of the initialisation loop
    mask,            \* solve: outer loop counter
    last,            \* solve: inner loop counter
    bestMask, bestLast, bestFinishTime, bestCount,
    result,          \* the object solve returns
    legs,            \* RouteCard.build(result.route, ...)
    calls,           \* number of solver runs the controller has started
    search,          \* findMinSpeed: its locals and the object it returns
    probe,           \* a single call of a pure function: arguments and value
    worker,          \* the service worker: its cache and the events it handles
    app              \* the controller: currentYear, yearData, loads in flight

vars == <<data, config, pc, visitableCps, startCp, finishCp, dp, parent, i,
          mask, last, bestMask, bestLast, bestFinishTime, bestCount, result,
          legs, calls, search, probe, worker, app>>

-----------------------------------------------------------------------------
(* Program constants *)

INF == 1000000000

DefaultStartTime == 600

-----------------------------------------------------------------------------
(* Bounds of the input space *)

\* length in km of a long leg (a short leg is 1 km)
LongLeg == 2

\* the non-zero dwell time tried, in minutes
MaxDwell == 5

-----------------------------------------------------------------------------
(* Small helpers for the JavaScript primitives *)

\* 1 << k
Shl1(k) == 2 ^ k

\* mask & (1 << k), as a truth value
HasBit(m, k) == (m \div Shl1(k)) % 2 = 1

\* mask | (1 << k) with the bit forgotten
OrBitKeepsMask(m, k) == m

\* mask | (1 << k)
OrBit(m, k) == IF HasBit(m, k) THEN m ELSE m + Shl1(k)

Min(S) == CHOOSE x \in S : \A y \in S : x <= y

Max(S) == CHOOSE x \in S : \A y \in S : x >= y

\* unshift adding at the end, as push does
UnshiftAtEnd(s, e) == Append(s, e)

\* Array.prototype.unshift / push on a sequence
Unshift(s, e) == <<e>> \o s

Push(s, e) == Append(s, e)

\* a || fallback for names: the empty string stands for null / undefined
OrElse(name, fallback) == IF name = "" THEN fallback ELSE name

-----------------------------------------------------------------------------
(* js/solver.js: pure helpers *)

\* getTravelTime with a missing edge costing nothing
getTravelTimeMissingIsFree(distances, from, to, speed) ==
    IF from = "" \/ to = "" \/ speed = 0 THEN INF
    ELSE IF <<from, to>> \notin DOMAIN distances THEN 0
    ELSE (distances[<<from, to>>].distance * 60) \div speed

\* getTravelTime(distances, from, to, speed)
getTravelTime(distances, from, to, speed) ==
    IF from = "" \/ to = "" \/ speed = 0 THEN INF
    ELSE IF <<from, to>> \notin DOMAIN distances THEN INF
    ELSE (distances[<<from, to>>].distance * 60) \div speed

\* getDistanceValue(distances, from, to)
getDistanceValue(distances, from, to) ==
    IF from = "" \/ to = "" THEN 0
    ELSE IF <<from, to>> \in DOMAIN distances
         THEN distances[<<from, to>>].distance ELSE 0

\* getHeightValue(distances, from, to)
getHeightValue(distances, from, to) ==
    IF from = "" \/ to = "" THEN 0
    ELSE IF <<from, to>> \in DOMAIN distances
         THEN distances[<<from, to>>].heightGain ELSE 0

\* the loop of getWaitTime with the close time excluded from the window
RECURSIVE WaitScanOpenEnded(_, _, _)
WaitScanOpenEnded(arriveTime, openSlots, k) ==
    IF k > Len(openSlots) THEN INF
    ELSE IF arriveTime >= openSlots[k].open /\ arriveTime < openSlots[k].close
         THEN 0
    ELSE IF arriveTime < openSlots[k].open
         THEN openSlots[k].open - arriveTime
    ELSE WaitScanOpenEnded(arriveTime, openSlots, k + 1)

\* the loop of getWaitTime with an early arrival turned away instead of
\* made to wait
RECURSIVE WaitScanNoWaiting(_, _, _)
WaitScanNoWaiting(arriveTime, openSlots, k) ==
    IF k > Len(openSlots) THEN INF
    ELSE IF arriveTime >= openSlots[k].open /\ arriveTime <= openSlots[k].close
         THEN 0
    ELSE IF arriveTime < openSlots[k].open THEN INF
    ELSE WaitScanNoWaiting(arriveTime, openSlots, k + 1)

\* the for-of loop of getWaitTime, from slot k on
RECURSIVE WaitScan(_, _, _)
WaitScan(arriveTime, openSlots, k) ==
    IF k > Len(openSlots) THEN INF
    ELSE IF arriveTime >= openSlots[k].open /\ arriveTime <= openSlots[k].close
         THEN 0
    ELSE IF arriveTime < openSlots[k].open
         THEN openSlots[k].open - arriveTime
    ELSE WaitScan(arriveTime, openSlots, k + 1)

\* getWaitTime reporting no wait once every window has closed
getWaitTimeNeverClosed(arriveTime, openSlots) ==
    IF Len(openSlots) = 0 THEN 0
    ELSE IF WaitScan(arriveTime, openSlots, 1) = INF THEN 0
    ELSE WaitScan(arriveTime, openSlots, 1)

\* getWaitTime(arriveTime, openSlots)
getWaitTime(arriveTime, openSlots) ==
    IF Len(openSlots) = 0 THEN 0 ELSE WaitScan(arriveTime, openSlots, 1)

\* popCount(n)
RECURSIVE popCount(_)
popCount(m) == IF m = 0 THEN 0 ELSE (m % 2) + popCount(m \div 2)


\* calculateRouteTotals(route, distances); the roundings to one decimal and
\* to a whole number leave whole-kilometre sums unchanged
RECURSIVE SumLegs(_, _, _, _)
SumLegs(route, distances, k, acc) ==
    IF k > Len(route) - 1 THEN acc
    ELSE LET key == <<route[k], route[k + 1]>>
         IN  IF key \in DOMAIN distances
             THEN SumLegs(route, distances, k + 1,
                          [totalDistance |-> acc.totalDistance + distances[key].distance,
                           totalHeight |-> acc.totalHeight + distances[key].heightGain])
             ELSE SumLegs(route, distances, k + 1, acc)

calculateRouteTotals(route, distances) ==
    SumLegs(route, distances, 1, [totalDistance |-> 0, totalHeight |-> 0])

\* the while loop of reconstructRoute
RECURSIVE BackTrack(_, _, _, _, _, _)
BackTrack(par, cps, n, currentMask, currentLast, route) ==
    IF currentLast < 0 THEN route
    ELSE LET r1 == Unshift(route, cps[currentLast + 1].name)
             prevIdx == par[currentMask * n + currentLast]
         IN  IF prevIdx = -2 THEN r1
             ELSE IF prevIdx < 0 THEN r1
             ELSE BackTrack(par, cps, n, prevIdx \div n, prevIdx % n, r1)

\* reconstructRoute without the final push of Finish
reconstructRouteNoFinish(par, cps, m, l, n, sCp, fCp) ==
    Unshift(BackTrack(par, cps, n, m, l, <<>>), OrElse(sCp, "Start"))

\* reconstructRoute(parent, visitableCps, mask, last, n, startCp, finishCp)
reconstructRoute(par, cps, m, l, n, sCp, fCp) ==
    Push(Unshift(BackTrack(par, cps, n, m, l, <<>>), OrElse(sCp, "Start")),
         OrElse(fCp, "Finish"))

-----------------------------------------------------------------------------
(* js/solver.js: solve, one action per loop iteration *)

IsStartCp(cp) == cp.isStart

IsFinishCp(cp) == ~cp.isStart /\ cp.isFinish

\* the name of the last element, "" when there is none (null)
LastNameOf(cps) == IF Len(cps) = 0 THEN "" ELSE cps[Len(cps)].name

\* the first loop of solve without the test of excludedCps
VisitableIgnoringExcluded(checkpoints, excludedCps) ==
    LET Keep(cp) == ~cp.isStart /\ ~cp.isFinish
    IN  SelectSeq(checkpoints, Keep)

\* the first loop of solve with the test of excludedCps inverted
VisitableOnlyExcluded(checkpoints, excludedCps) ==
    LET Keep(cp) == ~cp.isStart /\ ~cp.isFinish /\ cp.name \in excludedCps
    IN  SelectSeq(checkpoints, Keep)

\* the first loop of solve pushing onto a list that outlives the call
VisitableAccumulated(checkpoints, excludedCps) ==
    LET Keep(cp) == ~cp.isStart /\ ~cp.isFinish /\ cp.name \notin excludedCps
    IN  visitableCps \o SelectSeq(checkpoints, Keep)

\* the checkpoints the first loop of solve keeps as visitable
Visitable(checkpoints, excludedCps) ==
    LET Keep(cp) == ~cp.isStart /\ ~cp.isFinish /\ cp.name \notin excludedCps
    IN  SelectSeq(checkpoints, Keep)

NoResult ==
    [count |-> -1, route |-> <<>>, finishTime |-> -1,
     totalDistance |-> -1, totalHeight |-> -1]

\* the object both fallback branches return, up to finishTime
FallbackResult(sCp, fCp, finishTime) ==
    [count |-> 0,
     route |-> <<OrElse(sCp, "Start"), OrElse(fCp, "Finish")>>,
     finishTime |-> finishTime,
     totalDistance |-> getDistanceValue(data.distances, sCp, fCp),
     totalHeight |-> getHeightValue(data.distances, sCp, fCp)]

\* solve, lines 17-59: split the checkpoints, return at once when none is
\* eligible, else allocate the tables
SolveBegin ==
    /\ pc = "solve"
    /\ LET vis == Visitable(data.checkpoints, config.excludedCps)
           sCp == LastNameOf(SelectSeq(data.checkpoints, IsStartCp))
           fCp == LastNameOf(SelectSeq(data.checkpoints, IsFinishCp))
           n == Len(vis)
       IN  /\ visitableCps' = vis
           /\ startCp' = sCp
           /\ finishCp' = fCp
           /\ IF n = 0
              THEN /\ result' = FallbackResult(sCp, fCp, data.startTime)
                   /\ pc' = "returned"
                   /\ UNCHANGED <<dp, parent>>
              ELSE /\ dp' = [k \in 0 .. (Shl1(n) * n - 1) |-> INF]
                   /\ parent' = [k \in 0 .. (Shl1(n) * n - 1) |-> -1]
                   /\ pc' = "init"
                   /\ UNCHANGED result
    /\ i' = 0
    /\ UNCHANGED <<worker, app, data, config, mask, last, bestMask, bestLast,
                   bestFinishTime, bestCount, legs, calls, search, probe>>

\* the ready time with the wait left out
DepartTimeNoWait(arriveTime, waitTime, dwellTime) == arriveTime + dwellTime

\* the ready time of a visit: arriveTime + waitTime + dwellTime
DepartTime(arriveTime, waitTime, dwellTime) == arriveTime + waitTime + dwellTime

\* solve, lines 62-79: one iteration of the initialisation loop
SolveInit ==
    /\ pc = "init"
    /\ LET n == Len(visitableCps)
           cp == visitableCps[i + 1]
           travelTime == getTravelTime(data.distances, startCp, cp.name, config.speed)
           arriveTime == data.startTime + travelTime
           waitTime == getWaitTime(arriveTime, cp.openSlots)
           idx == Shl1(i) * n + i
       IN  /\ IF travelTime = INF \/ waitTime = INF
              THEN UNCHANGED <<dp, parent>>
              ELSE /\ dp' = [dp EXCEPT ![idx] =
                                DepartTime(arriveTime, waitTime, config.dwellTime)]
                   /\ parent' = [parent EXCEPT ![idx] = -2]
           /\ IF i + 1 < n
              THEN /\ i' = i + 1
                   /\ UNCHANGED <<pc, mask, last>>
              ELSE /\ pc' = "trans"
                   /\ mask' = 1
                   /\ last' = 0
                   /\ UNCHANGED i
    /\ UNCHANGED <<worker, app, data, config, visitableCps, startCp, finishCp, bestMask,
                   bestLast, bestFinishTime, bestCount, result, legs, calls,
                   search, probe>>

\* the loop over next overwriting a cell on an equal candidate as well
RECURSIVE ExtendAlsoOnTie(_, _, _, _, _)
ExtendAlsoOnTie(tab, m, l, currentTime, next) ==
    LET n == Len(visitableCps) IN
    IF next >= n THEN tab
    ELSE IF HasBit(m, next) THEN ExtendAlsoOnTie(tab, m, l, currentTime, next + 1)
    ELSE
      LET travelTime == getTravelTime(data.distances, visitableCps[l + 1].name,
                                      visitableCps[next + 1].name, config.speed)
          arriveTime == currentTime + travelTime
          waitTime == getWaitTime(arriveTime, visitableCps[next + 1].openSlots)
          departTime == DepartTime(arriveTime, waitTime, config.dwellTime)
          newIdx == OrBit(m, next) * n + next
      IN  IF travelTime = INF \/ waitTime = INF
          THEN ExtendAlsoOnTie(tab, m, l, currentTime, next + 1)
          ELSE IF departTime <= tab.dp[newIdx]
               THEN ExtendAlsoOnTie(
                        [dp |-> [tab.dp EXCEPT ![newIdx] = departTime],
                         parent |-> [tab.parent EXCEPT ![newIdx] = m * n + l]],
                        m, l, currentTime, next + 1)
               ELSE ExtendAlsoOnTie(tab, m, l, currentTime, next + 1)

\* solve, lines 92-114: the loop over next, from index next on, for the source
\* cell (m, l) whose ready time is currentTime
RECURSIVE Extend(_, _, _, _, _)
Extend(tab, m, l, currentTime, next) ==
    LET n == Len(visitableCps) IN
    IF next >= n THEN tab
    ELSE IF HasBit(m, next) THEN Extend(tab, m, l, currentTime, next + 1)
    ELSE
      LET fromCp == visitableCps[l + 1]
          toCp == visitableCps[next + 1]
          travelTime == getTravelTime(data.distances, fromCp.name, toCp.name,
                                      config.speed)
          arriveTime == currentTime + travelTime
          waitTime == getWaitTime(arriveTime, toCp.openSlots)
          departTime == DepartTime(arriveTime, waitTime, config.dwellTime)
          newIdx == OrBit(m, next) * n + next
      IN  IF travelTime = INF THEN Extend(tab, m, l, currentTime, next + 1)
          ELSE IF waitTime = INF THEN Extend(tab, m, l, currentTime, next + 1)
          ELSE IF departTime < tab.dp[newIdx]
               THEN Extend([dp |-> [tab.dp EXCEPT ![newIdx] = departTime],
                            parent |-> [tab.parent EXCEPT ![newIdx] = m * n + l]],
                           m, l, currentTime, next + 1)
               ELSE Extend(tab, m, l, currentTime, next + 1)

\* solve, lines 82-116: one iteration (mask, last) of the transition loops
SolveTransition ==
    /\ pc = "trans"
    /\ LET n == Len(visitableCps)
           idx == mask * n + last
           tab == IF ~HasBit(mask, last) \/ dp[idx] >= INF
                  THEN [dp |-> dp, parent |-> parent]
                  ELSE Extend([dp |-> dp, parent |-> parent], mask, last, dp[idx], 0)
       IN  /\ dp' = tab.dp
           /\ parent' = tab.parent
           /\ IF last + 1 < n
              THEN /\ last' = last + 1
                   /\ UNCHANGED <<pc, mask, bestMask, bestLast, bestFinishTime,
                                  bestCount>>
              ELSE IF mask + 1 < Shl1(n)
              THEN /\ mask' = mask + 1
                   /\ last' = 0
                   /\ UNCHANGED <<pc, bestMask, bestLast, bestFinishTime, bestCount>>
              ELSE /\ pc' = "final"
                   /\ mask' = 0
                   /\ last' = 0
                   /\ bestMask' = 0
                   /\ bestLast' = -1
                   /\ bestFinishTime' = INF
                   /\ bestCount' = 0
    /\ UNCHANGED <<worker, app, data, config, visitableCps, startCp, finishCp, i, result, legs,
                   calls, search, probe>>

\* the comparison of line 145 without the tie-break on finishTime
BetterCountOnly(count, finishTime, bCount, bFinishTime) == count > bCount

\* the test of line 143 accepting any arrival at Finish
FinishInTimeAlways(finishTime, finishWindow) == TRUE

\* the test of line 143 also turning away an arrival before Finish opens
FinishInTimeWindow(finishTime, finishWindow) ==
    finishTime >= finishWindow.open /\ finishTime <= finishWindow.close

\* solve, line 143: Finish is reached within its window
FinishInTime(finishTime, finishWindow) == finishTime <= finishWindow.close

\* the comparison of line 145 on finishTime alone
BetterEarlierFinish(count, finishTime, bCount, bFinishTime) ==
    finishTime < bFinishTime

\* the comparison of line 145 also replacing on an equal finishTime
BetterOrEqual(count, finishTime, bCount, bFinishTime) ==
    count > bCount \/ (count = bCount /\ finishTime <= bFinishTime)

\* solve, line 145: does a completion replace the best one so far
Better(count, finishTime, bCount, bFinishTime) ==
    count > bCount \/ (count = bCount /\ finishTime < bFinishTime)

\* solve, lines 124-153: one iteration (mask, last) of the finalisation loops
SolveFinal ==
    /\ pc = "final"
    /\ LET n == Len(visitableCps)
           count == popCount(mask)
           idx == mask * n + last
           currentTime == dp[idx]
           fromCp == visitableCps[last + 1]
           travelTime == getTravelTime(data.distances, fromCp.name, finishCp,
                                       config.speed)
           finishTime == currentTime + travelTime
       IN  /\ IF /\ HasBit(mask, last)
                 /\ currentTime < INF
                 /\ travelTime # INF
                 /\ FinishInTime(finishTime, data.finishWindow)
                 /\ Better(count, finishTime, bestCount, bestFinishTime)
              THEN /\ bestCount' = count
                   /\ bestMask' = mask
                   /\ bestLast' = last
                   /\ bestFinishTime' = finishTime
              ELSE UNCHANGED <<bestCount, bestMask, bestLast, bestFinishTime>>
           /\ IF last + 1 < n
              THEN /\ last' = last + 1
                   /\ UNCHANGED <<pc, mask>>
              ELSE IF mask + 1 < Shl1(n)
              THEN /\ mask' = mask + 1
                   /\ last' = 0
                   /\ UNCHANGED pc
              ELSE /\ pc' = "select"
                   /\ UNCHANGED <<mask, last>>
    /\ UNCHANGED <<worker, app, data, config, visitableCps, startCp, finishCp, dp, parent, i,
                   result, legs, calls, search, probe>>

\* solve, lines 155-180: the fallback when nothing completes, else the
\* reconstructed route and its totals
SolveReturn ==
    /\ pc = "select"
    /\ IF bestLast = -1
       THEN result' = FallbackResult(startCp, finishCp,
                         data.startTime + getTravelTime(data.distances, startCp,
                                                        finishCp, config.speed))
       ELSE LET route == reconstructRoute(parent, visitableCps, bestMask, bestLast,
                                          Len(visitableCps), startCp, finishCp)
                totals == calculateRouteTotals(route, data.distances)
            IN  result' = [count |-> bestCount,
                           route |-> route,
                           finishTime |-> bestFinishTime,
                           totalDistance |-> totals.totalDistance,
                           totalHeight |-> totals.totalHeight]
    /\ pc' = "returned"
    /\ UNCHANGED <<worker, app, data, config, visitableCps, startCp, finishCp, dp, parent, i,
                   mask, last, bestMask, bestLast, bestFinishTime, bestCount, legs,
                   calls, search, probe>>

-----------------------------------------------------------------------------
(* js/route-card.js: RouteCard.build and RouteCard.summarize *)

\* checkpoints.get(name): the matching entries, empty when undefined
CpGet(checkpoints, name) ==
    LET Named(cp) == cp.name = name IN SelectSeq(checkpoints, Named)

\* build, lines 22-69: the legs from position k on, the clock at currentTime;
\* the display roundings leave whole numbers unchanged
RECURSIVE BuildLegs(_, _, _, _, _, _)
BuildLegs(route, d, cfg, k, currentTime, acc) ==
    IF k > Len(route) - 1 THEN acc
    ELSE
      LET from == route[k]
          to == route[k + 1]
          toCp == CpGet(d.checkpoints, to)
          key == <<from, to>>
          hasDist == key \in DOMAIN d.distances
          distance == IF hasDist THEN d.distances[key].distance ELSE 0
          heightGain == IF hasDist THEN d.distances[key].heightGain ELSE 0
          travelMinutes == IF cfg.speed > 0 THEN (distance * 60) \div cfg.speed ELSE 0
          departTime == currentTime
          arriveTime == departTime + travelMinutes
          rawWait == IF Len(toCp) > 0 /\ Len(toCp[1].openSlots) > 0
                     THEN getWaitTime(arriveTime, toCp[1].openSlots)
                     ELSE 0
          waitTime == IF rawWait = INF THEN 0 ELSE rawWait
          toIsFinish == Len(toCp) > 0 /\ toCp[1].isFinish
          actualDwell == IF toIsFinish THEN 0 ELSE cfg.dwellTime
          readyTime == arriveTime + waitTime + actualDwell
      IN  BuildLegs(route, d, cfg, k + 1, readyTime,
                    Append(acc, [leg |-> k, from |-> from, to |-> to,
                                 distance |-> distance, heightGain |-> heightGain,
                                 travelMinutes |-> travelMinutes,
                                 departTime |-> departTime, arriveTime |-> arriveTime,
                                 waitTime |-> waitTime, dwellTime |-> actualDwell,
                                 readyTime |-> readyTime, isFinish |-> toIsFinish]))

\* RouteCard.build(route, data, config)
build(route, d, cfg) == BuildLegs(route, d, cfg, 1, d.startTime, <<>>)

\* summarize, lines 82-86: the running sums over the legs from k on
RECURSIVE SumCard(_, _, _)
SumCard(ls, k, acc) ==
    IF k > Len(ls) THEN acc
    ELSE SumCard(ls, k + 1,
                 [totalDistance |-> acc.totalDistance + ls[k].distance,
                  totalHeight |-> acc.totalHeight + ls[k].heightGain,
                  totalTravel |-> acc.totalTravel + ls[k].travelMinutes])

\* RouteCard.summarize(legs)
summarize(ls) ==
    LET sums == SumCard(ls, 1, [totalDistance |-> 0, totalHeight |-> 0,
                                totalTravel |-> 0])
    IN  [totalDistance |-> sums.totalDistance,
         totalHeight |-> sums.totalHeight,
         totalTravelMinutes |-> sums.totalTravel,
         startTime |-> IF Len(ls) > 0 THEN ls[1].departTime ELSE 0,
         finishTime |-> IF Len(ls) > 0 THEN ls[Len(ls)].arriveTime ELSE 0,
         checkpointCount |-> Len(ls)]

\* handleSolve: the route card built over the route solve returned, with the
\* speed and dwell time solve was given
HandleSolveCard ==
    /\ pc = "returned"
    /\ legs' = build(result.route, data,
                     [speed |-> config.speed, dwellTime |-> config.dwellTime,
                      startTime |-> data.startTime])
    /\ pc' = "card"
    /\ UNCHANGED <<worker, app, data, config, visitableCps, startCp, finishCp, dp, parent, i,
                   mask, last, bestMask, bestLast, bestFinishTime, bestCount,
                   result, calls, search, probe>>

-----------------------------------------------------------------------------
(* The instances solve is run on: what CSVParser.parseOpenings and           *)
(* parseDistances hand over (one Start, one Finish, windows ascending and    *)
(* disjoint, every stored distance positive)                                 *)

Slot(o, c) == [open |-> o, close |-> c]

\* a checkpoint entry of parseOpenings
Cp(name, isStart, isFinish, openSlots) ==
    [name |-> name, isStart |-> isStart, isFinish |-> isFinish,
     openSlots |-> openSlots]

\* an entry of the distances map
Edge(km) == [distance |-> km, heightGain |-> 0]

\* the window lists a Regular checkpoint is given: always open, one window
\* that opens after the start, two windows with a gap
WindowChoices ==
    { <<>>,
      <<Slot(DefaultStartTime + 20, DefaultStartTime + 30)>>,
      <<Slot(DefaultStartTime, DefaultStartTime + 10),
        Slot(DefaultStartTime + 40, DefaultStartTime + 50)>> }

\* the close times of the Finish window: tight and generous
CloseChoices == {DefaultStartTime + 40, DefaultStartTime + 120}

CloseChoicesThree == {DefaultStartTime + 60, DefaultStartTime + 120}

DwellChoices == {0, MaxDwell}

SpeedChoices == {6}

\* the map parseDistances builds from a table km, 0 meaning no row
DistanceMap(pairs, km) ==
    [key \in {p \in pairs : km[p] > 0} |-> Edge(km[key])]

\* the checkpoint list: Start, the Regular ones in order, Finish
Checkpoints(names, slotsOf, finishWindow) ==
    <<Cp("Start", TRUE, FALSE, <<Slot(DefaultStartTime, DefaultStartTime + 30)>>)>>
    \o [k \in 1 .. Len(names) |-> Cp(names[k], FALSE, FALSE, slotsOf[names[k]])]
    \o <<Cp("Finish", FALSE, TRUE, <<finishWindow>>)>>

\* bestResult = null; a speed of 0 stands for null
NoBest == [speed |-> 0]

\* findMinSpeed has not been called
NoSearch ==
    [expectedCount |-> 0, low |-> 0, high |-> 0, bestResult |-> NoBest,
     result |-> NoBest]

\* getWaitTime has not been called on its own
NoProbe == [pc |-> "none"]

\* no service worker is registered
NoWorker == [state |-> "none"]

\* the controller before a year is selected
NoApp == [currentYear |-> 0, yearData |-> [year |-> 0], loads |-> {},
          selections |-> 0]

\* the state before solve is called
Ready(d, cfg) ==
    /\ data = d
    /\ config = cfg
    /\ pc = "solve"
    /\ visitableCps = <<>>
    /\ startCp = ""
    /\ finishCp = ""
    /\ dp = <<>>
    /\ parent = <<>>
    /\ i = 0
    /\ mask = 0
    /\ last = 0
    /\ bestMask = 0
    /\ bestLast = -1
    /\ bestFinishTime = INF
    /\ bestCount = 0
    /\ result = NoResult
    /\ legs = <<>>
    /\ calls = 1
    /\ search = NoSearch
    /\ probe = NoProbe
    /\ worker = NoWorker
    /\ app = NoApp

\* two Regular checkpoints, every directed leg absent, short or long
TwoNames == <<"A", "B">>

TwoPairs ==
    { <<"Start", "A">>, <<"Start", "B">>, <<"A", "B">>, <<"B", "A">>,
      <<"A", "Finish">>, <<"B", "Finish">>, <<"Start", "Finish">> }

TwoTables ==
    { km \in [TwoPairs -> {0, 1, LongLeg}] :
        /\ km[<<"Start", "Finish">>] <= 1
        /\ km[<<"A", "Finish">>] <= 1
        /\ km[<<"B", "Finish">>] <= 1 }

InitTwo ==
    \E km \in TwoTables, slotsOf \in [{"A", "B"} -> WindowChoices],
       close \in CloseChoices, dwell \in DwellChoices, speed \in SpeedChoices,
       excluded \in {{}, {"A"}, {"A", "B"}} :
        Ready([checkpoints |-> Checkpoints(TwoNames, slotsOf,
                                           Slot(close - 60, close)),
               startTime |-> DefaultStartTime,
               finishWindow |-> Slot(close - 60, close),
               distances |-> DistanceMap(TwoPairs, km)],
              [speed |-> speed, dwellTime |-> dwell, excludedCps |-> excluded])

\* three Regular checkpoints: legs from Start short or long, legs between
\* Regular checkpoints short or long and either two-way or one-way (the
\* reverse direction has no row), every leg to Finish short
ThreeNames == <<"A", "B", "C">>

ThreeOut == { <<"Start", "A">>, <<"Start", "B">>, <<"Start", "C">> }

ThreeForward == { <<"A", "B">>, <<"B", "C">>, <<"A", "C">> }

ThreeIn == { <<"A", "Finish">>, <<"B", "Finish">>, <<"C", "Finish">> }

ThreePairs ==
    ThreeOut \cup ThreeForward \cup { <<p[2], p[1]>> : p \in ThreeForward }
    \cup ThreeIn \cup { <<"Start", "Finish">> }

ThreeTable(out, fwd, oneWay) ==
    [p \in ThreePairs |->
        IF p \in ThreeOut THEN out[p]
        ELSE IF p \in ThreeForward THEN fwd[p]
        ELSE IF p \in ThreeIn \/ p = <<"Start", "Finish">> THEN 1
        ELSE IF oneWay THEN 0 ELSE fwd[<<p[2], p[1]>>]]

InitThree ==
    \E out \in [ThreeOut -> {1, LongLeg}], fwd \in [ThreeForward -> {1, LongLeg}],
       oneWay \in BOOLEAN, slotsOf \in [{"A", "B", "C"} -> WindowChoices],
       close \in CloseChoicesThree, dwell \in DwellChoices, speed \in SpeedChoices,
       excluded \in {{}, {"B"}} :
        Ready([checkpoints |-> Checkpoints(ThreeNames, slotsOf,
                                           Slot(close - 60, close)),
               startTime |-> DefaultStartTime,
               finishWindow |-> Slot(close - 60, close),
               distances |-> DistanceMap(ThreePairs, ThreeTable(out, fwd, oneWay))],
              [speed |-> speed, dwellTime |-> dwell, excludedCps |-> excluded])

Init == InitTwo \/ InitThree

Next ==
    \/ SolveBegin
    \/ SolveInit
    \/ SolveTransition
    \/ SolveFinal
    \/ SolveReturn
    \/ HandleSolveCard

Spec == Init /\ [][Next]_vars

-----------------------------------------------------------------------------
(* What the claims speak of, stated from the problem and not from the code *)

Returned == pc = "returned"

StartId == (CHOOSE k \in DOMAIN data.checkpoints : data.checkpoints[k].isStart)

FinishId == (CHOOSE k \in DOMAIN data.checkpoints : data.checkpoints[k].isFinish)

StartName == data.checkpoints[StartId].name

FinishName == data.checkpoints[FinishId].name

\* the eligible checkpoints: Regular and not excluded
Eligible ==
    { data.checkpoints[k].name : k \in
        { j \in DOMAIN data.checkpoints :
            /\ ~data.checkpoints[j].isStart
            /\ ~data.checkpoints[j].isFinish
            /\ data.checkpoints[j].name \notin config.excludedCps } }

SlotsOf(name) ==
    data.checkpoints[CHOOSE k \in DOMAIN data.checkpoints :
                        data.checkpoints[k].name = name].openSlots

HasLeg(from, to) == <<from, to>> \in DOMAIN data.distances

LegMinutes(from, to) == (data.distances[<<from, to>>].distance * 60) \div config.speed

\* a visit that arrives at `arrival` can begin iff some window has not closed
CanVisit(arrival, slots) ==
    Len(slots) = 0 \/ \E k \in DOMAIN slots : arrival <= slots[k].close

\* ... and begins at once, or when the earliest such window opens
VisitBegin(arrival, slots) ==
    IF Len(slots) = 0 THEN arrival
    ELSE Min({ Max({arrival, slots[k].open}) :
                 k \in { j \in DOMAIN slots : arrival <= slots[j].close } })

\* the arrival time at Finish of the visiting sequence seq, continued from
\* position k with the walker free at `prev` at minute `time`; -1 when a leg
\* has no edge, a checkpoint has closed, or Finish has closed
RECURSIVE FinishOf(_, _, _, _)
FinishOf(seq, k, prev, time) ==
    IF k > Len(seq)
    THEN IF HasLeg(prev, FinishName)
            /\ time + LegMinutes(prev, FinishName) <= data.finishWindow.close
         THEN time + LegMinutes(prev, FinishName)
         ELSE -1
    ELSE IF ~HasLeg(prev, seq[k]) THEN -1
    ELSE LET arrival == time + LegMinutes(prev, seq[k])
         IN  IF ~CanVisit(arrival, SlotsOf(seq[k])) THEN -1
             ELSE FinishOf(seq, k + 1, seq[k],
                           VisitBegin(arrival, SlotsOf(seq[k])) + config.dwellTime)

\* the sequences of k distinct eligible checkpoints
Orderings(k) ==
    { s \in [1 .. k -> Eligible] : \A a, b \in 1 .. k : a # b => s[a] # s[b] }

FeasibleOrderings(k) ==
    { s \in Orderings(k) : FinishOf(s, 1, StartName, data.startTime) >= 0 }

\* the largest number of checkpoints a feasible sequence visits, 0 if none
MaxFeasible ==
    Max({0} \cup { k \in 1 .. Cardinality(Eligible) : FeasibleOrderings(k) # {} })

\* the replay of a route from startTime with the solver's own arithmetic: for
\* each position k >= 2 the arrival, the begin of the visit and the ready time
RECURSIVE ReplayFrom(_, _, _, _)
ReplayFrom(route, k, time, acc) ==
    IF k > Len(route) THEN acc
    ELSE LET arriveTime == time + getTravelTime(data.distances, route[k - 1],
                                                route[k], config.speed)
             waitTime == IF route[k] = FinishName THEN 0
                         ELSE getWaitTime(arriveTime, SlotsOf(route[k]))
             ready == IF route[k] = FinishName THEN arriveTime
                      ELSE DepartTime(arriveTime, waitTime, config.dwellTime)
         IN  ReplayFrom(route, k + 1, ready,
                        Append(acc, [name |-> route[k], arriveTime |-> arriveTime,
                                     begin |-> arriveTime + waitTime,
                                     ready |-> ready]))

Replay(route) == ReplayFrom(route, 2, data.startTime, <<>>)

\* the visits of Regular checkpoints in the replay of the returned route
Visits == LET r == Replay(result.route)
          IN  { r[k] : k \in { j \in DOMAIN r : r[j].name # FinishName } }

InSlot(t, slot) == slot.open <= t /\ t <= slot.close

-----------------------------------------------------------------------------
(* Claims *)

\* C1: with at least one eligible checkpoint, the count solve returns is the
\* largest number of distinct eligible checkpoints that a feasible visiting
\* sequence visits (every leg has an edge, every checkpoint is reached by the
\* close of one of its windows, Finish is reached by its close), and 0 when
\* there is no feasible sequence.
C1_CountIsMaximum ==
    (Returned /\ Cardinality(Eligible) >= 1) => result.count = MaxFeasible

\* the case of C1: three eligible checkpoints of which only two can be visited
C1_Witness ==
    /\ Returned
    /\ Cardinality(Eligible) = 3
    /\ result.count = 2
    /\ MaxFeasible = 2

\* C2: when count >= 1, finishTime is the least arrival time at Finish over
\* the feasible visiting sequences of exactly count checkpoints.
C2_FinishIsEarliest ==
    (Returned /\ result.count >= 1) =>
        result.finishTime =
            Min({ FinishOf(s, 1, StartName, data.startTime) :
                    s \in FeasibleOrderings(result.count) })

\* the case of C2: feasible sequences of the maximum length that reach Finish
\* at different times
C2_Witness ==
    /\ Returned
    /\ result.count >= 2
    /\ \E s \in FeasibleOrderings(result.count) :
          FinishOf(s, 1, StartName, data.startTime) > result.finishTime

\* C3: in a result with count >= 1, the replay of the route from startTime
\* begins every visit of a Regular checkpoint inside one of its windows
\* (endpoints included) unless it has none, and finishTime <= the Finish close.
C3_VisitsWhileOpen ==
    (Returned /\ result.count >= 1) =>
        /\ \A v \in Visits :
              \/ Len(SlotsOf(v.name)) = 0
              \/ \E k \in DOMAIN SlotsOf(v.name) : InSlot(v.begin, SlotsOf(v.name)[k])
        /\ result.finishTime <= data.finishWindow.close

\* the case of C3: a visit that had to wait and begins exactly when a window
\* opens, and another that begins exactly when a window closes
C3_Witness ==
    /\ Returned
    /\ result.count >= 2
    /\ \E v \in Visits : \E k \in DOMAIN SlotsOf(v.name) :
          v.begin = SlotsOf(v.name)[k].open /\ v.arriveTime < v.begin
    /\ \E v \in Visits : \E k \in DOMAIN SlotsOf(v.name) :
          v.begin = SlotsOf(v.name)[k].close

\* C4 as claimed: at every position of a non-fallback route that is not
\* Finish, the ready time (arrival + wait + dwell) is <= the close of the
\* window in which the visit falls.
C4_ReadyByClose ==
    (Returned /\ result.count >= 1) =>
        \A v \in Visits : \A k \in DOMAIN SlotsOf(v.name) :
            InSlot(v.begin, SlotsOf(v.name)[k]) => v.ready <= SlotsOf(v.name)[k].close

\* C4 as amended: at every position of a non-fallback route that is not
\* Finish, the ready time less the dwell time (arrival + wait) is <= the close
\* of a window of the checkpoint that has opened by then, unless the
\* checkpoint has no windows; the ready time itself may pass the close by up
\* to the dwell time.
C4_ReadyLessDwellByClose ==
    (Returned /\ result.count >= 1) =>
        \A v \in Visits :
            \/ Len(SlotsOf(v.name)) = 0
            \/ \E k \in DOMAIN SlotsOf(v.name) :
                  /\ SlotsOf(v.name)[k].open <= v.ready - config.dwellTime
                  /\ v.ready - config.dwellTime <= SlotsOf(v.name)[k].close

\* the case of C4: a visit inside a window whose ready time is past its close
C4_Witness ==
    /\ Returned
    /\ result.count >= 1
    /\ \E v \in Visits : \E k \in DOMAIN SlotsOf(v.name) :
          InSlot(v.begin, SlotsOf(v.name)[k]) /\ v.ready > SlotsOf(v.name)[k].close

\* C5: every route solve returns begins with the Start id, ends with the
\* Finish id and has count + 2 entries, in the DP case and in both fallbacks.
C5_RouteShape ==
    Returned =>
        /\ Len(result.route) = result.count + 2
        /\ result.route[1] = StartName
        /\ result.route[Len(result.route)] = FinishName

\* the case of C5: a reconstructed route through three checkpoints
C5_Witness ==
    /\ Returned
    /\ result.count = 3
    /\ Len(result.route) = 5

\* C6: the Regular ids of every returned route are pairwise distinct and none
\* is excluded.
C6_DistinctNotExcluded ==
    Returned =>
        /\ \A a, b \in 2 .. (Len(result.route) - 1) :
              a # b => result.route[a] # result.route[b]
        /\ \A a \in DOMAIN result.route : result.route[a] \notin config.excludedCps

\* the case of C6: a checkpoint is excluded and two others are visited
C6_Witness ==
    /\ Returned
    /\ config.excludedCps # {}
    /\ result.count = 2

\* C7: every consecutive pair of a non-fallback route has an entry in the
\* directed distances map.
C7_LegsHaveEdges ==
    (Returned /\ result.count >= 1) =>
        \A k \in 1 .. (Len(result.route) - 1) :
            <<result.route[k], result.route[k + 1]>> \in DOMAIN data.distances

\* the case of C7: a route that visits everything although the direct leg
\* from Start to one of its checkpoints has no edge
C7_Witness ==
    /\ Returned
    /\ result.count = 2
    /\ \E k \in 3 .. (Len(result.route) - 1) :
          <<StartName, result.route[k]>> \notin DOMAIN data.distances

\* no cell of the finished DP table completes: unreachable, no edge to Finish,
\* or Finish reached after its close
NoCompletion ==
    LET n == Len(visitableCps) IN
    \A m \in 0 .. (Shl1(n) - 1) : \A l \in 0 .. (n - 1) :
        HasBit(m, l) =>
            \/ dp[m * n + l] >= INF
            \/ ~HasLeg(visitableCps[l + 1].name, FinishName)
            \/ dp[m * n + l] + LegMinutes(visitableCps[l + 1].name, FinishName)
                 > data.finishWindow.close

\* C8: with no eligible checkpoint, or when no DP state reaches Finish by its
\* close, solve returns count = 0 and the route [Start, Finish].
C8_DegenerateRoute ==
    (Returned /\ (Cardinality(Eligible) = 0 \/ NoCompletion)) =>
        /\ result.count = 0
        /\ result.route = <<StartName, FinishName>>

\* the case of C8: checkpoints are eligible and reachable, none completes
C8_Witness ==
    /\ Returned
    /\ Cardinality(Eligible) >= 2
    /\ \E k \in DOMAIN dp : dp[k] < INF
    /\ NoCompletion

\* C9: a fallback result has finishTime = startTime + the travel time of the
\* Start -> Finish edge when that edge exists, and = startTime when it does not.
C9_FallbackFinishTime ==
    (Returned /\ result.count = 0) =>
        result.finishTime =
            IF HasLeg(StartName, FinishName)
            THEN data.startTime + LegMinutes(StartName, FinishName)
            ELSE data.startTime

\* C10: the finish time of the route card built over the returned route with
\* the same speed and dwell time equals the finishTime solve returned.
C10_CardReproducesFinish ==
    pc = "card" => summarize(legs).finishTime = result.finishTime


-----------------------------------------------------------------------------
(* js/solver.js: getWaitTime applied on its own to every arrival time and    *)
(* every ascending list of disjoint windows within a small horizon           *)

\* the latest minute that appears in a window or as an arrival
MaxTime == 6

\* the longest window list
MaxSlots == 2

\* the lists parseTimeSlots can build: each window opens before it closes
\* and closes before the next one opens
RECURSIVE SlotLists(_, _)
SlotLists(from, k) ==
    IF k = 0 THEN {<<>>}
    ELSE {<<>>} \cup
         { <<Slot(o, c)>> \o rest :
             <<o, c, rest>> \in
               { t \in (from .. MaxTime) \X (from .. MaxTime) \X SlotLists(from, k - 1) :
                   /\ t[1] < t[2]
                   /\ (Len(t[3]) > 0 => t[2] < t[3][1].open) } }

\* the solver's locals before any call
SolverIdle ==
    /\ visitableCps = <<>>
    /\ startCp = ""
    /\ finishCp = ""
    /\ dp = <<>>
    /\ parent = <<>>
    /\ i = 0
    /\ mask = 0
    /\ last = 0
    /\ bestMask = 0
    /\ bestLast = -1
    /\ bestFinishTime = INF
    /\ bestCount = 0
    /\ result = NoResult
    /\ legs = <<>>
    /\ worker = NoWorker
    /\ app = NoApp

InitWait ==
    \E arriveTime \in 0 .. MaxTime + 1, openSlots \in SlotLists(0, MaxSlots) :
        /\ probe = [pc |-> "call", arriveTime |-> arriveTime,
                    openSlots |-> openSlots, waitTime |-> -1]
        /\ pc = "probe"
        /\ data = [checkpoints |-> <<>>, startTime |-> 0,
                   finishWindow |-> Slot(0, 0), distances |-> <<>>]
        /\ config = [speed |-> 0, dwellTime |-> 0, excludedCps |-> {}]
        /\ calls = 0
        /\ search = NoSearch
        /\ SolverIdle

\* one call getWaitTime(arriveTime, openSlots)
CallGetWaitTime ==
    /\ probe.pc = "call"
    /\ probe' = [probe EXCEPT !.pc = "done",
                              !.waitTime = getWaitTime(probe.arriveTime,
                                                       probe.openSlots)]
    /\ UNCHANGED <<worker, app, data, config, pc, visitableCps, startCp, finishCp, dp, parent,
                   i, mask, last, bestMask, bestLast, bestFinishTime, bestCount,
                   result, legs, calls, search>>

NextWait == CallGetWaitTime

SpecWait == InitWait /\ [][NextWait]_vars

\* C17: for every arrival time and every ascending list of disjoint windows,
\* getWaitTime returns 0 when the list is empty or the arrival lies in a
\* window (ends included); otherwise, when some window opens at or after the
\* arrival, the positive gap to the earliest such opening; and the sentinel
\* 1e9 exactly when the list is not empty and the arrival is after every close.
C17_WaitContract ==
    probe.pc = "done" =>
        LET a == probe.arriveTime
            s == probe.openSlots
            w == probe.waitTime
            inside == \E k \in DOMAIN s : s[k].open <= a /\ a <= s[k].close
            later == { k \in DOMAIN s : s[k].open >= a }
            afterAll == Len(s) > 0 /\ \A k \in DOMAIN s : a > s[k].close
        IN  /\ (Len(s) = 0 \/ inside) => w = 0
            /\ (Len(s) > 0 /\ ~inside /\ later # {}) =>
                   /\ w = s[Min(later)].open - a
                   /\ w > 0
            /\ (w = INF) <=> afterAll

\* an arrival in the gap between two windows has been answered
C17_Witness ==
    /\ probe.pc = "done"
    /\ Len(probe.openSlots) = 2
    /\ probe.arriveTime > probe.openSlots[1].close
    /\ probe.arriveTime < probe.openSlots[2].open
    /\ probe.waitTime = probe.openSlots[2].open - probe.arriveTime


-----------------------------------------------------------------------------
(* js/solver.js: solve as a function of its two arguments, for the callers   *)
(* that use the returned object only (findMinSpeed calls it nine times).     *)
(* The loops are the ones the actions above take one iteration at a time.    *)

\* lines 62-79: the initialisation loop from index k on
RECURSIVE solveInitLoop(_, _, _, _, _, _)
solveInitLoop(d, cfg, cps, sCp, tab, k) ==
    LET n == Len(cps) IN
    IF k >= n THEN tab
    ELSE
      LET cp == cps[k + 1]
          travelTime == getTravelTime(d.distances, sCp, cp.name, cfg.speed)
          arriveTime == d.startTime + travelTime
          waitTime == getWaitTime(arriveTime, cp.openSlots)
          idx == Shl1(k) * n + k
      IN  IF travelTime = INF \/ waitTime = INF
          THEN solveInitLoop(d, cfg, cps, sCp, tab, k + 1)
          ELSE solveInitLoop(d, cfg, cps, sCp,
                   [dp |-> [tab.dp EXCEPT ![idx] =
                               DepartTime(arriveTime, waitTime, cfg.dwellTime)],
                    parent |-> [tab.parent EXCEPT ![idx] = -2]],
                   k + 1)

\* lines 92-114: the loop over next for the source cell (m, l)
RECURSIVE solveExtend(_, _, _, _, _, _, _, _)
solveExtend(d, cfg, cps, tab, m, l, currentTime, next) ==
    LET n == Len(cps) IN
    IF next >= n THEN tab
    ELSE IF HasBit(m, next)
         THEN solveExtend(d, cfg, cps, tab, m, l, currentTime, next + 1)
    ELSE
      LET travelTime == getTravelTime(d.distances, cps[l + 1].name,
                                      cps[next + 1].name, cfg.speed)
          arriveTime == currentTime + travelTime
          waitTime == getWaitTime(arriveTime, cps[next + 1].openSlots)
          departTime == DepartTime(arriveTime, waitTime, cfg.dwellTime)
          newIdx == OrBit(m, next) * n + next
      IN  IF travelTime = INF \/ waitTime = INF
          THEN solveExtend(d, cfg, cps, tab, m, l, currentTime, next + 1)
          ELSE IF departTime < tab.dp[newIdx]
               THEN solveExtend(d, cfg, cps,
                        [dp |-> [tab.dp EXCEPT ![newIdx] = departTime],
                         parent |-> [tab.parent EXCEPT ![newIdx] = m * n + l]],
                        m, l, currentTime, next + 1)
               ELSE solveExtend(d, cfg, cps, tab, m, l, currentTime, next + 1)

\* lines 82-116: the transition loops from the cell (m, l) on
RECURSIVE solveTransLoop(_, _, _, _, _, _)
solveTransLoop(d, cfg, cps, tab, m, l) ==
    LET n == Len(cps) IN
    IF m >= Shl1(n) THEN tab
    ELSE IF l >= n THEN solveTransLoop(d, cfg, cps, tab, m + 1, 0)
    ELSE IF ~HasBit(m, l) \/ tab.dp[m * n + l] >= INF
         THEN solveTransLoop(d, cfg, cps, tab, m, l + 1)
    ELSE solveTransLoop(d, cfg, cps,
             solveExtend(d, cfg, cps, tab, m, l, tab.dp[m * n + l], 0),
             m, l + 1)

\* lines 119-153: the finalisation loops from the cell (m, l) on
RECURSIVE solveFinalLoop(_, _, _, _, _, _, _, _)
solveFinalLoop(d, cfg, cps, fCp, tab, m, l, best) ==
    LET n == Len(cps) IN
    IF m >= Shl1(n) THEN best
    ELSE IF l >= n THEN solveFinalLoop(d, cfg, cps, fCp, tab, m + 1, 0, best)
    ELSE
      LET count == popCount(m)
          currentTime == tab.dp[m * n + l]
          travelTime == getTravelTime(d.distances, cps[l + 1].name, fCp, cfg.speed)
          finishTime == currentTime + travelTime
      IN  IF /\ HasBit(m, l)
             /\ currentTime < INF
             /\ travelTime # INF
             /\ FinishInTime(finishTime, d.finishWindow)
             /\ Better(count, finishTime, best.bestCount, best.bestFinishTime)
          THEN solveFinalLoop(d, cfg, cps, fCp, tab, m, l + 1,
                   [bestCount |-> count, bestMask |-> m, bestLast |-> l,
                    bestFinishTime |-> finishTime])
          ELSE solveFinalLoop(d, cfg, cps, fCp, tab, m, l + 1, best)

\* solve(data, config)
solve(d, cfg) ==
    LET cps == Visitable(d.checkpoints, cfg.excludedCps)
        sCp == LastNameOf(SelectSeq(d.checkpoints, IsStartCp))
        fCp == LastNameOf(SelectSeq(d.checkpoints, IsFinishCp))
        n == Len(cps)
        Fallback(finishTime) ==
            [count |-> 0,
             route |-> <<OrElse(sCp, "Start"), OrElse(fCp, "Finish")>>,
             finishTime |-> finishTime,
             totalDistance |-> getDistanceValue(d.distances, sCp, fCp),
             totalHeight |-> getHeightValue(d.distances, sCp, fCp)]
    IN  IF n = 0 THEN Fallback(d.startTime)
        ELSE
          LET empty == [dp |-> [k \in 0 .. (Shl1(n) * n - 1) |-> INF],
                        parent |-> [k \in 0 .. (Shl1(n) * n - 1) |-> -1]]
              tab == solveTransLoop(d, cfg, cps,
                         solveInitLoop(d, cfg, cps, sCp, empty, 0), 1, 0)
              best == solveFinalLoop(d, cfg, cps, fCp, tab, 0, 0,
                          [bestCount |-> 0, bestMask |-> 0, bestLast |-> -1,
                           bestFinishTime |-> INF])
          IN  IF best.bestLast = -1
              THEN Fallback(d.startTime
                            + getTravelTime(d.distances, sCp, fCp, cfg.speed))
              ELSE LET route == reconstructRoute(tab.parent, cps, best.bestMask,
                                                 best.bestLast, n, sCp, fCp)
                       totals == calculateRouteTotals(route, d.distances)
                   IN  [count |-> best.bestCount,
                        route |-> route,
                        finishTime |-> best.bestFinishTime,
                        totalDistance |-> totals.totalDistance,
                        totalHeight |-> totals.totalHeight]


-----------------------------------------------------------------------------
(* js/solver.js: findMinSpeed.                                               *)
(*                                                                           *)
(* The bisection halves [3.0, 10.0] eight times, so every speed it tries is  *)
(* 3 + 7k/256 km/h, and the speed it reports is a multiple of 0.1 km/h.      *)
(* Speeds are therefore counted here in units of 1/SpeedDen km/h, in which   *)
(* all of them are whole numbers the doubles hold exactly.  A travel time    *)
(* at such a speed is no whole number of minutes.  solve only adds times     *)
(* and compares them, so a run at the speed p/SpeedDen km/h is computed      *)
(* with every time in units of 1/p minute and every length in units of       *)
(* 1/SpeedDen of the data's unit: startTime, windows and dwell times p-fold, *)
(* distances SpeedDen-fold, speed 1 km/h.  Every quantity is then a whole    *)
(* number and every comparison of solve has the outcome it has in exact      *)
(* arithmetic; the rounding of the doubles is left out.                      *)

\* resolution of a speed: 1/1280 km/h holds 7/256 and 1/10
SpeedDen == 1280

\* resolution of a length in the instances below: 1/2 km
UnitsPerKm == 2

\* a whole speed in km/h
Kmh(x) == x * SpeedDen

\* Math.round of the fraction num / den (den > 0): halves go up
MathRound(num, den) == (2 * num + den) \div (2 * den)

\* Math.round(high * 10) / 10
RoundedSpeed(high) == MathRound(high * 10, SpeedDen) * (SpeedDen \div 10)

ScaledSlots(openSlots, p) ==
    [k \in DOMAIN openSlots |-> Slot(openSlots[k].open * p, openSlots[k].close * p)]

\* the data with times in units of 1/p minute and lengths SpeedDen-fold
ScaledData(d, p) ==
    [checkpoints |-> [k \in DOMAIN d.checkpoints |->
                        [d.checkpoints[k] EXCEPT !.openSlots = ScaledSlots(@, p)]],
     startTime |-> d.startTime * p,
     finishWindow |-> Slot(d.finishWindow.open * p, d.finishWindow.close * p),
     distances |-> [key \in DOMAIN d.distances |->
                      [distance |-> d.distances[key].distance * SpeedDen,
                       heightGain |-> d.distances[key].heightGain]]]

\* solve(data, { ...config, speed }) at the speed p / SpeedDen km/h; the
\* finishTime of the object is in units of 1/p minute (timeUnit), and the
\* sentinel 1e9 in it is not scaled
solveAtSpeed(d, cfg, p) ==
    LET r == solve(ScaledData(d, p),
                   [speed |-> UnitsPerKm, dwellTime |-> cfg.dwellTime * p,
                    excludedCps |-> cfg.excludedCps])
    IN  [count |-> r.count, route |-> r.route, finishTime |-> r.finishTime,
         timeUnit |-> p, totalDistance |-> r.totalDistance \div SpeedDen,
         totalHeight |-> r.totalHeight]

\* the count of lines 191-196 without the skip of Finish
ExpectedCountWithFinish(checkpoints, excludedCps) ==
    LET Counted(cp) == ~cp.isStart /\ cp.name \notin excludedCps
    IN  Len(SelectSeq(checkpoints, Counted))

\* lines 191-196: the number of checkpoints that are neither Start nor Finish
\* nor excluded
ExpectedCount(checkpoints, excludedCps) ==
    LET Counted(cp) == ~(cp.isStart \/ cp.isFinish) /\ cp.name \notin excludedCps
    IN  Len(SelectSeq(checkpoints, Counted))

\* { ...result, speed }
ResultWithSpeed(r, speed) ==
    [speed |-> speed, count |-> r.count, route |-> r.route,
     finishTime |-> r.finishTime, timeUnit |-> r.timeUnit,
     totalDistance |-> r.totalDistance, totalHeight |-> r.totalHeight]

\* the caller's config after config.speed = speed had been assigned
ConfigAfterAssign(cfg, speed) == [cfg EXCEPT !.speed = speed]

\* the caller's config after { ...config, speed } has been built: the spread
\* copies into a new object
ConfigAfterSpread(cfg, speed) == cfg

\* line 226 reporting the upper end of the search instead of null
NoSpeedResultAtMax == [speed |-> Kmh(10), route |-> <<>>]

\* line 226: { speed: null, message }
NoSpeedResult ==
    [speed |-> 0, message |-> "Cannot visit all checkpoints even at max speed"]

\* findMinSpeed, lines 188-206: count the checkpoints to visit; return at
\* once when there is none, else set up the bisection
FindMinSpeedBegin ==
    /\ pc = "minspeed"
    /\ LET expectedCount == ExpectedCount(data.checkpoints, config.excludedCps)
       IN  IF expectedCount = 0
           THEN /\ search' = [search EXCEPT
                                !.expectedCount = 0,
                                !.result = [speed |-> Kmh(3), route |-> <<>>,
                                            finishTime |-> 0]]
                /\ pc' = "minreturned"
           ELSE /\ search' = [expectedCount |-> expectedCount,
                              low |-> Kmh(3), high |-> Kmh(10),
                              bestResult |-> NoBest, result |-> NoBest]
                /\ pc' = "bisect"
    /\ UNCHANGED <<worker, app, data, config, visitableCps, startCp, finishCp, dp, parent, i,
                   mask, last, bestMask, bestLast, bestFinishTime, bestCount,
                   result, legs, calls, probe>>

\* findMinSpeed, lines 208-218: one iteration of the bisection;
\* high - low > 0.05 is 20 * (high - low) > 1
FindMinSpeedStep ==
    /\ pc = "bisect"
    /\ 20 * (search.high - search.low) > Kmh(1)
    /\ LET mid == (search.low + search.high) \div 2
           r == solveAtSpeed(data, config, mid)
       IN  /\ search' = IF r.count >= search.expectedCount
                        THEN [search EXCEPT !.bestResult = ResultWithSpeed(r, mid),
                                            !.high = mid]
                        ELSE [search EXCEPT !.low = mid]
           /\ config' = ConfigAfterSpread(config, mid)
    /\ UNCHANGED <<worker, app, data, pc, visitableCps, startCp, finishCp, dp, parent, i,
                   mask, last, bestMask, bestLast, bestFinishTime, bestCount,
                   result, legs, calls, probe>>

\* findMinSpeed, lines 220-226: the run at high and the object returned
FindMinSpeedReturn ==
    /\ pc = "bisect"
    /\ ~(20 * (search.high - search.low) > Kmh(1))
    /\ LET finalResult == solveAtSpeed(data, config, search.high)
       IN  search' = [search EXCEPT !.result =
                        IF finalResult.count >= search.expectedCount
                        THEN ResultWithSpeed(finalResult, RoundedSpeed(search.high))
                        ELSE IF search.bestResult.speed # 0 THEN search.bestResult
                        ELSE NoSpeedResult]
    /\ config' = ConfigAfterSpread(config, search.high)
    /\ pc' = "minreturned"
    /\ UNCHANGED <<worker, app, data, visitableCps, startCp, finishCp, dp, parent, i,
                   mask, last, bestMask, bestLast, bestFinishTime, bestCount,
                   result, legs, calls, probe>>


-----------------------------------------------------------------------------
(* The controller: handleMinSpeed, and a second press of either button       *)

\* RouteCard.build(route, data, { speed, dwellTime, startTime }) at the speed
\* p / SpeedDen km/h: times in units of 1/p minute, distances as in the data
buildAtSpeed(route, d, dwellTime, p) ==
    LET ls == build(route, ScaledData(d, p),
                    [speed |-> UnitsPerKm, dwellTime |-> dwellTime * p,
                     startTime |-> d.startTime * p])
    IN  [k \in DOMAIN ls |->
            [ls[k] EXCEPT !.distance = ls[k].distance \div SpeedDen]]

\* handleMinSpeed, lines 421-440: the alert when no speed works, else the
\* result is kept and the route card is built at the reported speed
HandleMinSpeedCard ==
    /\ pc = "minreturned"
    /\ IF search.result.speed = 0
       THEN /\ pc' = "alert"
            /\ UNCHANGED <<result, legs>>
       ELSE /\ result' = search.result
            /\ legs' = buildAtSpeed(search.result.route, data, config.dwellTime,
                                    search.result.speed)
            /\ pc' = "mincard"
    /\ UNCHANGED <<worker, app, data, config, visitableCps, startCp, finishCp, dp, parent, i,
                   mask, last, bestMask, bestLast, bestFinishTime, bestCount,
                   calls, search, probe>>

\* how often a button is pressed
MaxCalls == 2

\* the spec's example (Start at 600; legs Start-A 3 km, Start-B 2 km,
\* A-B 1.5 km, B-Finish 4 km, A-Finish 5 km) with and without a leg back
\* from B to A, lengths in units of 1/UnitsPerKm km
AppPairs ==
    { <<"Start", "A">>, <<"Start", "B">>, <<"A", "B">>, <<"B", "A">>,
      <<"B", "Finish">>, <<"A", "Finish">> }

AppTable(back) ==
    [key \in AppPairs |->
        IF key = <<"Start", "A">> THEN 6
        ELSE IF key = <<"Start", "B">> THEN 4
        ELSE IF key = <<"A", "B">> THEN 3
        ELSE IF key = <<"B", "A">> THEN back
        ELSE IF key = <<"B", "Finish">> THEN 8
        ELSE 10]

\* A's windows: the example's, the infeasible example's, one that closes
\* early, none
AppWindowsA ==
    { <<Slot(620, 700)>>, <<Slot(600, 605)>>, <<Slot(620, 639)>>, <<>> }

\* B's windows: the example's, and the same with a gap
AppWindowsB == { <<Slot(610, 900)>>, <<Slot(610, 640), Slot(700, 900)>> }

AppCloseChoices == {900, 720}

AppDwellChoices == {0, 5}

\* the config handleSolve builds (slider at 5 km/h) and the one
\* handleMinSpeed builds (no speed: 0 stands for undefined)
AppConfig(mode, dwellTime, excludedCps) ==
    [speed |-> IF mode = "solve" THEN 5 * UnitsPerKm ELSE 0,
     dwellTime |-> dwellTime, excludedCps |-> excludedCps]

InitApp ==
    \E a \in AppWindowsA, b \in AppWindowsB, back \in {0, 3},
       close \in AppCloseChoices, dwell \in AppDwellChoices,
       excluded \in SUBSET {"A", "B"}, mode \in {"solve", "minspeed"} :
        /\ data = [checkpoints |->
                     Checkpoints(TwoNames, [n \in {"A", "B"} |->
                                               IF n = "A" THEN a ELSE b],
                                 Slot(close - 60, close)),
                   startTime |-> DefaultStartTime,
                   finishWindow |-> Slot(close - 60, close),
                   distances |-> DistanceMap(AppPairs, AppTable(back))]
        /\ config = AppConfig(mode, dwell, excluded)
        /\ pc = mode
        /\ calls = 1
        /\ search = NoSearch
        /\ probe = NoProbe
        /\ SolverIdle

\* the user changes the exclusions and presses Solve or Min Speed again
PressAgain ==
    /\ pc \in {"card", "mincard", "alert"}
    /\ calls < MaxCalls
    /\ \E excluded \in SUBSET {"A", "B"}, mode \in {"solve", "minspeed"} :
        /\ config' = AppConfig(mode, config.dwellTime, excluded)
        /\ pc' = mode
    /\ calls' = calls + 1
    /\ UNCHANGED <<worker, app, data, visitableCps, startCp, finishCp, dp, parent, i, mask,
                   last, bestMask, bestLast, bestFinishTime, bestCount, result,
                   legs, search, probe>>

NextApp ==
    \/ SolveBegin
    \/ SolveInit
    \/ SolveTransition
    \/ SolveFinal
    \/ SolveReturn
    \/ HandleSolveCard
    \/ FindMinSpeedBegin
    \/ FindMinSpeedStep
    \/ FindMinSpeedReturn
    \/ HandleMinSpeedCard
    \/ PressAgain

SpecApp == InitApp /\ [][NextApp]_vars


-----------------------------------------------------------------------------
(* Claims on findMinSpeed *)

\* findMinSpeed has returned
MinReturned == pc = "minreturned"

\* findMinSpeed has returned a number as the speed
NumericSpeed == MinReturned /\ search.result.speed # 0

\* C11: whenever findMinSpeed returns a numeric speed for an instance with at
\* least one eligible checkpoint, the speed lies in [3.0, 10.0] and solve at
\* exactly the returned (rounded) speed visits every eligible checkpoint.
C11_ReturnedSpeedSuffices ==
    (NumericSpeed /\ Cardinality(Eligible) >= 1) =>
        /\ search.result.speed >= Kmh(3)
        /\ search.result.speed <= Kmh(10)
        /\ solveAtSpeed(data, config, search.result.speed).count
               = Cardinality(Eligible)

\* the part of C11 that does hold: the speed is in range and the run at
\* high, before the rounding, visits every eligible checkpoint
C11_HighSuffices ==
    (NumericSpeed /\ Cardinality(Eligible) >= 1) =>
        /\ search.result.speed >= Kmh(3)
        /\ search.result.speed <= Kmh(10)
        /\ search.result.count = Cardinality(Eligible)
        /\ solveAtSpeed(data, config, search.high).count = Cardinality(Eligible)


\* the spec's example with A open from a to c: no leg back, Finish closes
\* at 900, dwell 5, nothing excluded
IsExample(a, c) ==
    /\ SlotsOf("A") = <<Slot(a, c)>>
    /\ SlotsOf("B") = <<Slot(610, 900)>>
    /\ <<"B", "A">> \notin DOMAIN data.distances
    /\ data.finishWindow.close = 900
    /\ config.dwellTime = 5
    /\ config.excludedCps = {}

\* C12: whenever solve at 10.0 km/h does not visit every eligible checkpoint
\* (there being at least one), findMinSpeed returns the no-speed object:
\* speed null and no route field.
C12_NoSpeedWhenMaxFails ==
    (/\ MinReturned
     /\ Cardinality(Eligible) >= 1
     /\ solveAtSpeed(data, config, Kmh(10)).count < Cardinality(Eligible)) =>
        /\ search.result.speed = 0
        /\ "route" \notin DOMAIN search.result

\* findMinSpeed has returned on the spec's example with A open [600, 605],
\* which no speed up to 10 km/h reaches in time
C12_Witness ==
    /\ MinReturned
    /\ IsExample(600, 605)
    /\ solveAtSpeed(data, config, Kmh(10)).count < Cardinality(Eligible)
    /\ search.result.speed = 0


-----------------------------------------------------------------------------
(* Claims that relate two runs of solve *)

\* whole speeds in ascending order, in the data's length unit per hour, at
\* which every leg of every instance takes a whole number of minutes
WholeMinuteSpeeds == <<3, 5, 6, 10>>

\* the count solve returns on the data of the state with config changed
CountWithExcluded(excludedCps) ==
    solve(data, [config EXCEPT !.excludedCps = excludedCps]).count

CountAtSpeed(speed) == solve(data, [config EXCEPT !.speed = speed]).count

\* C13: for fixed data, speed and dwell, when the excluded set E2 is a subset
\* of E1, solve with E2 returns a count at least the count it returns with E1.
C13_FewerExclusionsNoFewerVisits ==
    Returned =>
        \A E2 \in SUBSET config.excludedCps :
            CountWithExcluded(E2) >= result.count

\* a run with exclusions has returned, and without them solve visits more
C13_Witness ==
    /\ Returned
    /\ config.excludedCps # {}
    /\ CountWithExcluded({}) > result.count

\* C14: for fixed data, dwell and exclusions (windows ascending and disjoint),
\* solve at a speed no greater returns a count no greater, and at a speed no
\* smaller a count no smaller.
C14_FasterNoFewerVisits ==
    Returned =>
        LET CountAt(speed) ==
                IF speed = config.speed THEN result.count ELSE CountAtSpeed(speed)
        IN  \A k \in 1 .. Len(WholeMinuteSpeeds) - 1 :
                CountAt(WholeMinuteSpeeds[k]) <= CountAt(WholeMinuteSpeeds[k + 1])

\* a run has returned whose count a slower speed does not reach and a
\* faster speed exceeds
C14_Witness ==
    /\ Returned
    /\ \E k \in DOMAIN WholeMinuteSpeeds :
          /\ WholeMinuteSpeeds[k] < config.speed
          /\ CountAtSpeed(WholeMinuteSpeeds[k]) < result.count
    /\ \E k \in DOMAIN WholeMinuteSpeeds :
          /\ WholeMinuteSpeeds[k] > config.speed
          /\ CountAtSpeed(WholeMinuteSpeeds[k]) > result.count

\* the data with the Finish window, and the window list of the Finish
\* checkpoint, opening at open
WithFinishOpen(d, open) ==
    [d EXCEPT
        !.finishWindow = Slot(open, d.finishWindow.close),
        !.checkpoints = [k \in DOMAIN d.checkpoints |->
                            IF d.checkpoints[k].isFinish
                            THEN [d.checkpoints[k] EXCEPT !.openSlots =
                                     <<Slot(open, d.finishWindow.close)>>]
                            ELSE d.checkpoints[k]]]

\* C19: two inputs that differ only in the open time of the Finish window
\* (and of the Finish checkpoint's window) yield the same route, count and
\* finishTime: an arrival at Finish before it opens neither waits nor is
\* turned away.
C19_FinishOpenIgnored ==
    Returned =>
        \A open \in {0, data.startTime, data.finishWindow.close} :
            LET other == solve(WithFinishOpen(data, open), config)
            IN  /\ other.route = result.route
                /\ other.count = result.count
                /\ other.finishTime = result.finishTime

\* a route with a visit has been returned that reaches Finish before the
\* Finish window opens
C19_Witness ==
    /\ Returned
    /\ result.count >= 1
    /\ result.finishTime < data.finishWindow.open


-----------------------------------------------------------------------------
(* Claims on runs the controller starts one after another *)

\* C15: the route, count and finishTime solve returns are a function of data
\* and config alone: a run returns what any other run on equal data and
\* config returns, whatever was run before it.
C15_ResultDependsOnInputsOnly ==
    Returned =>
        LET alone == solve(data, config)
        IN  /\ result.route = alone.route
            /\ result.count = alone.count
            /\ result.finishTime = alone.finishTime

\* a second run of solve has returned after an earlier press that ended
\* with a route card of another length
C15_Witness ==
    /\ Returned
    /\ calls = 2
    /\ result.count >= 1
    /\ Len(legs) > 0
    /\ Len(legs) + 1 # Len(result.route)

\* C16: on the spec's example (A open [620, 700], B open [610, 900], speed
\* 5 km/h, dwell 5, Finish closing at 900) solve returns count 2 with a route
\* over both A and B between Start and Finish, and a finishTime of at most 900.
C16_ExampleVisitsBoth ==
    (Returned /\ IsExample(620, 700) /\ config.speed = 5 * UnitsPerKm) =>
        /\ result.count = 2
        /\ result.route \in { <<"Start", "A", "B", "Finish">>,
                              <<"Start", "B", "A", "Finish">> }
        /\ result.finishTime <= 900

\* solve has returned on the example: A, then B, Finish at 712
C16_Witness ==
    /\ Returned
    /\ IsExample(620, 700)
    /\ config.speed = 5 * UnitsPerKm
    /\ result.route = <<"Start", "A", "B", "Finish">>
    /\ result.finishTime = 712

\* C18: every object findMinSpeed returns with a numeric speed carries a
\* route that begins with Start and ends with Finish, also when no checkpoint
\* is eligible (the route is then Start, Finish).
C18_MinSpeedRouteShape ==
    NumericSpeed =>
        /\ Len(search.result.route) >= 2
        /\ search.result.route[1] = StartName
        /\ search.result.route[Len(search.result.route)] = FinishName
        /\ (Cardinality(Eligible) = 0 =>
                search.result.route = <<StartName, FinishName>>)

\* C20: no step of solve or of findMinSpeed changes data (checkpoints with
\* their window lists, distances, startTime, finishWindow) or the caller's
\* config (excludedCps included); only a new press of a button brings a new
\* config.
C20_InputsUnchanged ==
    [][PressAgain \/ (data' = data /\ config' = config)]_vars

\* findMinSpeed has returned after a bisection that lowered high, in a
\* second press after a run of solve has returned a route with visits
C20_Witness ==
    /\ MinReturned
    /\ search.expectedCount >= 1
    /\ search.high < Kmh(10)
    /\ calls = 2
    /\ "count" \in DOMAIN result
    /\ result.count >= 1


-----------------------------------------------------------------------------
(* solve on four Regular checkpoints: the loops over 15 masks *)

FourNames == <<"A", "B", "C", "D">>

FourSet == {"A", "B", "C", "D"}

FourPairs ==
    { <<"Start", x>> : x \in FourSet }
    \cup { p \in FourSet \X FourSet : p[1] # p[2] }
    \cup { <<x, "Finish">> : x \in FourSet }

\* the legs of the ring A, B, C, D, A
FourRing == { <<"A", "B">>, <<"B", "C">>, <<"C", "D">>, <<"D", "A">> }

\* legs from Start short or long; legs between Regular checkpoints all short,
\* or only along the ring; every leg to Finish short
FourTable(out, ringOnly) ==
    [p \in FourPairs |->
        IF p[1] = "Start" THEN out[p[2]]
        ELSE IF p[2] = "Finish" THEN 1
        ELSE IF ringOnly /\ p \notin FourRing THEN 0
        ELSE 1]

InitFour ==
    \E out \in [FourSet -> {1, LongLeg}], ringOnly \in BOOLEAN,
       slotsD \in WindowChoices, close \in CloseChoicesThree,
       dwell \in DwellChoices, speed \in SpeedChoices :
        Ready([checkpoints |->
                 Checkpoints(FourNames,
                             [x \in FourSet |-> IF x = "D" THEN slotsD ELSE <<>>],
                             Slot(close - 60, close)),
               startTime |-> DefaultStartTime,
               finishWindow |-> Slot(close - 60, close),
               distances |-> DistanceMap(FourPairs, FourTable(out, ringOnly))],
              [speed |-> speed, dwellTime |-> dwell, excludedCps |-> {}])

SpecFour == InitFour /\ [][Next]_vars

-----------------------------------------------------------------------------
(* Claims on the order of the loops of solve *)

\* the cells (m, l) the transition loops have read as a source before the
\* iteration the state is at
CellsRead ==
    LET n == Len(visitableCps)
    IN  { c \in (1 .. mask) \X (0 .. n - 1) :
            /\ c[1] < mask \/ c[2] < last
            /\ HasBit(c[1], c[2])
            /\ dp[c[1] * n + c[2]] < INF }

\* the cell the iteration the state is at reads as a source, if it does
CellBeingRead ==
    LET n == Len(visitableCps)
    IN  IF mask < Shl1(n) /\ HasBit(mask, last) /\ dp[mask * n + last] < INF
        THEN {<<mask, last>>} ELSE {}

\* the indices of the cells a step of the transition loops writes
CellsWritten ==
    { k \in DOMAIN dp : dp'[k] # dp[k] \/ parent'[k] # parent[k] }

\* C22 as stated: when a cell of a subset of size k is written, no subset of
\* size k + 1 has been read as a transition source.
C22_SizeKBeforeSizeKPlusOne ==
    [][pc = "trans" =>
        \A k \in CellsWritten :
            \A c \in CellsRead \cup CellBeingRead :
                popCount(c[1]) # popCount(k \div Len(visitableCps)) + 1]_vars

\* C22 amended: when a cell of a subset S is written, neither S itself nor
\* any superset of S has been read as a transition source; every subset gets
\* its last write before it or a superset of it is read.
C22_SubsetBeforeSuperset ==
    [][pc = "trans" =>
        \A k \in CellsWritten :
            \A c \in CellsRead \cup CellBeingRead :
                LET written == k \div Len(visitableCps)
                IN  \E b \in 0 .. Len(visitableCps) - 1 :
                        HasBit(written, b) /\ ~HasBit(c[1], b)]_vars

\* the loops are at mask 8 of four checkpoints, a cell of mask 7 has been
\* read, and the cell (8, 3) is about to be read
C22_Witness ==
    /\ pc = "trans"
    /\ Len(visitableCps) = 4
    /\ mask = 8
    /\ last = 3
    /\ CellBeingRead # {}
    /\ \E c \in CellsRead : c[1] = 7

\* C23: in the transition loops every write goes to a cell whose mask is
\* greater than the mask being read, and a cell that has been read as a
\* source keeps its dp value and its parent pointer.
C23_WritesAboveSource ==
    [][pc = "trans" =>
        /\ \A k \in CellsWritten : k \div Len(visitableCps) > mask
        /\ \A c \in CellsRead \cup CellBeingRead :
              c[1] * Len(visitableCps) + c[2] \notin CellsWritten]_vars

\* the loops are past mask 3, cells have been read, and the cell the state
\* is at is read as a source
C23_Witness ==
    /\ pc = "trans"
    /\ mask > 3
    /\ CellBeingRead # {}
    /\ Cardinality(CellsRead) >= 3


\* the ready time the source cell (mask, last) of the state offers to the
\* checkpoint next, INF when the leg is missing or the checkpoint has closed
CandidateFor(next) ==
    LET n == Len(visitableCps)
        travelTime == getTravelTime(data.distances, visitableCps[last + 1].name,
                                    visitableCps[next + 1].name, config.speed)
        arriveTime == dp[mask * n + last] + travelTime
        waitTime == getWaitTime(arriveTime, visitableCps[next + 1].openSlots)
    IN  IF travelTime = INF \/ waitTime = INF THEN INF
        ELSE arriveTime + waitTime + config.dwellTime

\* solve is in its initialisation loop or its transition loops
InTableLoops == pc \in {"init", "trans"}

\* C24: a cell of dp is overwritten only by a smaller ready time: no step of
\* the initialisation or transition loops raises a cell, and a step that
\* leaves the value of a cell as it was (an equal candidate included) leaves
\* its parent pointer with the predecessor found first.
C24_CellsOnlyDecrease ==
    [][InTableLoops =>
        \A k \in DOMAIN dp :
            /\ dp'[k] <= dp[k]
            /\ (dp'[k] = dp[k] => parent'[k] = parent[k])]_vars

\* the source cell being read offers a checkpoint a ready time equal to the
\* one its cell already holds from another predecessor
C24_Witness ==
    /\ pc = "trans"
    /\ CellBeingRead # {}
    /\ \E next \in 0 .. Len(visitableCps) - 1 :
          LET n == Len(visitableCps)
              newIdx == OrBit(mask, next) * n + next
          IN  /\ ~HasBit(mask, next)
              /\ CandidateFor(next) < INF
              /\ CandidateFor(next) = dp[newIdx]
              /\ parent[newIdx] >= 0
              /\ parent[newIdx] # mask * n + last


\* the name of the checkpoint with index l of the run
NameAt(l) == visitableCps[l + 1].name

\* the cells (m, l) from which Finish is reached before it closes, read off
\* the finished table
Completions ==
    LET n == Len(visitableCps)
    IN  { c \in (1 .. Shl1(n) - 1) \X (0 .. n - 1) :
            /\ HasBit(c[1], c[2])
            /\ dp[c[1] * n + c[2]] < INF
            /\ HasLeg(NameAt(c[2]), FinishName)
            /\ dp[c[1] * n + c[2]] + LegMinutes(NameAt(c[2]), FinishName)
                 <= data.finishWindow.close }

ArrivalFrom(c) ==
    dp[c[1] * Len(visitableCps) + c[2]] + LegMinutes(NameAt(c[2]), FinishName)

\* the completions with the largest count and, among these, the earliest
\* arrival at Finish
TopCompletions ==
    { c \in Completions :
        \A o \in Completions :
            \/ popCount(c[1]) > popCount(o[1])
            \/ popCount(c[1]) = popCount(o[1]) /\ ArrivalFrom(c) <= ArrivalFrom(o) }

\* C25: among the completions that tie on count and finishTime the one at
\* the lowest mask and, within it, the lowest last index is selected; during
\* finalisation the best so far is replaced only by a larger count, or an
\* equal count with a smaller finishTime.
C25_FirstOfTiesWins ==
    [][pc = "final" =>
        /\ (<<bestMask', bestLast'>> # <<bestMask, bestLast>> =>
               \/ bestCount' > bestCount
               \/ bestCount' = bestCount /\ bestFinishTime' < bestFinishTime)
        /\ ((pc' = "select" /\ TopCompletions # {}) =>
               /\ <<bestMask', bestLast'>> \in TopCompletions
               /\ \A c \in TopCompletions :
                     \/ bestMask' < c[1]
                     \/ bestMask' = c[1] /\ bestLast' <= c[2])]_vars

\* finalisation has ended with three or more completions tied on count and
\* finishTime, at more than one mask
C25_Witness ==
    /\ pc = "select"
    /\ Cardinality(TopCompletions) >= 3
    /\ \E c \in TopCompletions : c[1] # bestMask
    /\ \E c \in TopCompletions : c[1] = bestMask /\ c[2] # bestLast


\* the back-pointers from the cell (m, l) lead, one bit fewer at each step,
\* to a cell of a single checkpoint marked as reached from Start
RECURSIVE ChainToStart(_, _)
ChainToStart(m, l) ==
    LET n == Len(visitableCps)
        p == parent[m * n + l]
    IN  /\ HasBit(m, l)
        /\ IF popCount(m) = 1 THEN p = -2
           ELSE /\ p >= 0
                /\ p \div n = m - Shl1(l)
                /\ ChainToStart(p \div n, p % n)

\* C26: from every winning cell (bestMask, bestLast) the parent pointers pass
\* through masks that lose exactly one bit at each step, the bit of the
\* checkpoint just emitted, and reach the from-Start marker after popcount
\* (bestMask) steps; the Regular checkpoints of the route are exactly those
\* whose bits are set in bestMask, each once, the last of them bestLast.
C26_ReconstructionFollowsMask ==
    (Returned /\ result.count >= 1) =>
        LET route == result.route
            middle == { route[k] : k \in 2 .. Len(route) - 1 }
        IN  /\ ChainToStart(bestMask, bestLast)
            /\ Len(route) = popCount(bestMask) + 2
            /\ middle = { NameAt(b) : b \in { x \in 0 .. Len(visitableCps) - 1 :
                                                HasBit(bestMask, x) } }
            /\ Cardinality(middle) = popCount(bestMask)
            /\ route[Len(route) - 1] = NameAt(bestLast)
            /\ route[1] = StartName
            /\ route[Len(route)] = FinishName

\* a route over three or more checkpoints has been reconstructed whose order
\* is not the order of the indices
C26_Witness ==
    /\ Returned
    /\ result.count >= 3
    /\ bestLast # Len(visitableCps) - 1
    /\ result.route[2] # NameAt(0)


-----------------------------------------------------------------------------
(* Claim on the bisection of findMinSpeed *)

\* solve at the speed p / SpeedDen km/h visits every eligible checkpoint
FullCoverageAt(p) ==
    solveAtSpeed(data, config, p).count >= Cardinality(Eligible)

\* the speeds 3.0, 3.1, ..., 10.0 km/h
TenthSpeeds == { t * (SpeedDen \div 10) : t \in 30 .. 100 }

\* the number of halvings that lead from the width 7 km/h to the width w
RECURSIVE Halvings(_)
Halvings(w) == IF w >= Kmh(7) THEN 0 ELSE 1 + Halvings(2 * w)

-----------------------------------------------------------------------------
(* The openings parser: time-slot columns and parseTimeSlots *)

\* the most time-slot columns of an openings file
MaxColumns == 3

\* the minutes one open column adds after its own minute
SlotMinutes == 30

\* column headers as their four digits: 1000, 1010, 1020, 1030, 1060, 1100
HeaderChoices ==
    { <<1, 0, 0, 0>>, <<1, 0, 1, 0>>, <<1, 0, 2, 0>>, <<1, 0, 3, 0>>,
      <<1, 0, 6, 0>>, <<1, 1, 0, 0>> }

\* parseInt of the first two digits times 60 plus parseInt of the last two
HeaderMinutes(h) == (10 * h[1] + h[2]) * 60 + (10 * h[3] + h[4])

\* the column of one header
TimeSlotOf(h) == [header |-> h, minutes |-> HeaderMinutes(h)]

\* the orders the sort by minutes can leave the columns of the headers hs in
SortedTimeSlots(hs) ==
    { s \in [1 .. Cardinality(hs) -> { TimeSlotOf(h) : h \in hs }] :
        /\ \A j, k \in DOMAIN s : j # k => s[j] # s[k]
        /\ \A j, k \in DOMAIN s : j < k => s[j].minutes <= s[k].minutes }

\* the loop of parseTimeSlots from column k on; currentSlot is <<>> for null
RECURSIVE ParseScan(_, _, _, _, _)
ParseScan(row, timeSlots, k, currentSlot, openSlots) ==
    IF k > Len(timeSlots)
    THEN IF currentSlot # <<>> THEN Push(openSlots, currentSlot[1])
                               ELSE openSlots
    ELSE LET slot == timeSlots[k]
             isOpen == row[slot.header] = "1"
         IN  IF isOpen
             THEN LET started == IF currentSlot = <<>>
                                 THEN Slot(slot.minutes, slot.minutes)
                                 ELSE currentSlot[1]
                  IN  ParseScan(row, timeSlots, k + 1,
                                <<Slot(started.open, slot.minutes + SlotMinutes)>>,
                                openSlots)
             ELSE IF currentSlot # <<>>
                  THEN ParseScan(row, timeSlots, k + 1, <<>>,
                                 Push(openSlots, currentSlot[1]))
                  ELSE ParseScan(row, timeSlots, k + 1, <<>>, openSlots)

parseTimeSlots(row, timeSlots) == ParseScan(row, timeSlots, 1, <<>>, <<>>)

\* one row of an openings file under its headers, before the columns are found
InitOpenings ==
    \E hs \in SUBSET HeaderChoices :
        /\ Cardinality(hs) <= MaxColumns
        /\ \E row \in [hs -> {"0", "1"}] :
               probe = [pc |-> "headers", headers |-> hs, row |-> row,
                        timeSlots |-> <<>>, openSlots |-> <<>>]
        /\ pc = "probe"
        /\ data = [checkpoints |-> <<>>, startTime |-> 0,
                   finishWindow |-> Slot(0, 0), distances |-> <<>>]
        /\ config = [speed |-> 0, dwellTime |-> 0, excludedCps |-> {}]
        /\ calls = 0
        /\ search = NoSearch
        /\ SolverIdle

\* parseOpenings finds the time-slot columns and sorts them by minute
FindTimeSlots ==
    /\ probe.pc = "headers"
    /\ \E s \in SortedTimeSlots(probe.headers) :
           probe' = [probe EXCEPT !.pc = "row", !.timeSlots = s]
    /\ UNCHANGED <<worker, app, data, config, pc, visitableCps, startCp, finishCp, dp, parent,
                   i, mask, last, bestMask, bestLast, bestFinishTime, bestCount,
                   result, legs, calls, search>>

\* one call parseTimeSlots(row, timeSlots)
CallParseTimeSlots ==
    /\ probe.pc = "row"
    /\ probe' = [probe EXCEPT !.pc = "parsed",
                              !.openSlots = parseTimeSlots(probe.row,
                                                           probe.timeSlots)]
    /\ UNCHANGED <<worker, app, data, config, pc, visitableCps, startCp, finishCp, dp, parent,
                   i, mask, last, bestMask, bestLast, bestFinishTime, bestCount,
                   result, legs, calls, search>>

NextOpenings == FindTimeSlots \/ CallParseTimeSlots

SpecOpenings == InitOpenings /\ [][NextOpenings]_vars

\* the maximal runs of "1" columns, as pairs of first and last column index
OpenRuns ==
    LET t == probe.timeSlots
        open(k) == probe.row[t[k].header] = "1"
    IN  { r \in (DOMAIN t) \X (DOMAIN t) :
            /\ r[1] <= r[2]
            /\ \A k \in r[1] .. r[2] : open(k)
            /\ r[1] = 1 \/ ~open(r[1] - 1)
            /\ r[2] = Len(t) \/ ~open(r[2] + 1) }

\* one interval per maximal run, from its first minute to its last plus 30
OneSlotPerRun ==
    LET t == probe.timeSlots
        s == probe.openSlots
    IN  /\ Len(s) = Cardinality(OpenRuns)
        /\ \A r \in OpenRuns :
               \E k \in DOMAIN s :
                   /\ s[k].open = t[r[1]].minutes
                   /\ s[k].close = t[r[2]].minutes + SlotMinutes
                   /\ k = Cardinality({ q \in OpenRuns : q[1] <= r[1] })

\* C30: for every row of 0/1 values over time-slot columns sorted by minute,
\* parseTimeSlots returns intervals ascending by open, each with open < close,
\* pairwise non-overlapping, one per maximal run of "1" columns with open the
\* first column's minute and close the last column's minute + 30.
C30_ParsedSlotsContract ==
    probe.pc = "parsed" =>
        LET s == probe.openSlots
        IN  /\ \A j, k \in DOMAIN s : j < k => s[j].open <= s[k].open
            /\ \A k \in DOMAIN s : s[k].open < s[k].close
            /\ \A j, k \in DOMAIN s : j < k => s[j].close <= s[k].open
            /\ OneSlotPerRun

\* C30, the part that holds: the intervals ascend by open, each has
\* open < close, and there is one per maximal run of "1" columns, from the
\* run's first minute to its last minute + 30.
C30_OneSlotPerRun ==
    probe.pc = "parsed" =>
        LET s == probe.openSlots
        IN  /\ \A j, k \in DOMAIN s : j < k => s[j].open <= s[k].open
            /\ \A k \in DOMAIN s : s[k].open < s[k].close
            /\ OneSlotPerRun

\* a row with two runs of "1" columns has been parsed
C30_Witness ==
    /\ probe.pc = "parsed"
    /\ Len(probe.openSlots) = 2
    /\ Cardinality(OpenRuns) = 2


-----------------------------------------------------------------------------
(* The controller's year selection: handleYearChange and loadYearData *)

\* the most year selections of one run
MaxSelections == 3

\* the years offered by the year select; 0 stands for the empty option
Years == {2023, 2024, 2025}

\* yearData = null
NoYearData == [year |-> 0]

\* loadYearData(year) up to its await: currentYear is set, the load starts
LoadYearDataBegin(a, year) ==
    [a EXCEPT !.currentYear = year,
              !.loads = @ \cup {[id |-> a.selections + 1, year |-> year]},
              !.selections = @ + 1]

\* init: loadYears restores the last selected year, if there is one
InitYear ==
    /\ \E lastYear \in Years \cup {0} :
           app = IF lastYear = 0 THEN NoApp
                 ELSE LoadYearDataBegin(NoApp, lastYear)
    /\ pc = "config"
    /\ data = [checkpoints |-> <<>>, startTime |-> 0,
               finishWindow |-> Slot(0, 0), distances |-> <<>>]
    /\ config = [speed |-> 0, dwellTime |-> 0, excludedCps |-> {}]
    /\ calls = 0
    /\ search = NoSearch
    /\ probe = NoProbe
    /\ worker = NoWorker
    /\ visitableCps = <<>>
    /\ startCp = ""
    /\ finishCp = ""
    /\ dp = <<>>
    /\ parent = <<>>
    /\ i = 0
    /\ mask = 0
    /\ last = 0
    /\ bestMask = 0
    /\ bestLast = -1
    /\ bestFinishTime = INF
    /\ bestCount = 0
    /\ result = NoResult
    /\ legs = <<>>

\* the change event of the year select, up to the await of handleYearChange
HandleYearChange ==
    /\ app.selections < MaxSelections
    /\ \E year \in Years \cup {0} :
           app' = IF year = 0
                  THEN [app EXCEPT !.yearData = NoYearData,
                                   !.selections = @ + 1]
                  ELSE LoadYearDataBegin(app, year)
    /\ UNCHANGED <<worker, data, config, pc, visitableCps, startCp, finishCp,
                   dp, parent, i, mask, last, bestMask, bestLast,
                   bestFinishTime, bestCount, result, legs, calls, search,
                   probe>>

\* GitHubLoader.loadYear(year) resolves: the rest of the try block runs
LoadYearResolves ==
    /\ \E l \in app.loads :
           app' = [app EXCEPT !.yearData = [year |-> l.year],
                              !.loads = @ \ {l}]
    /\ UNCHANGED <<worker, data, config, pc, visitableCps, startCp, finishCp,
                   dp, parent, i, mask, last, bestMask, bestLast,
                   bestFinishTime, bestCount, result, legs, calls, search,
                   probe>>

\* GitHubLoader.loadYear(year) rejects: the catch block runs
LoadYearRejects ==
    /\ \E l \in app.loads :
           app' = [app EXCEPT !.yearData = NoYearData,
                              !.loads = @ \ {l}]
    /\ UNCHANGED <<worker, data, config, pc, visitableCps, startCp, finishCp,
                   dp, parent, i, mask, last, bestMask, bestLast,
                   bestFinishTime, bestCount, result, legs, calls, search,
                   probe>>

NextYear == HandleYearChange \/ LoadYearResolves \/ LoadYearRejects

SpecYear == InitYear /\ [][NextYear]_vars

\* C28: after any sequence of year selections whose loads complete in any
\* order, once no load is in flight a non-null yearData is the data of the
\* most recently selected year: yearData.year = currentYear.
C28_YearDataIsCurrent ==
    (app.loads = {} /\ app.yearData # NoYearData) =>
        app.yearData.year = app.currentYear

\* two loads were in flight together and both have completed
C28_Witness ==
    /\ app.loads = {}
    /\ app.selections >= 2
    /\ app.yearData # NoYearData


-----------------------------------------------------------------------------
(* The service worker: install, fetch and message listeners *)

\* the most fetch events of one run
MaxEvents == 2

\* the most CLEAR_DATA_CACHE messages of one run
MaxClears == 1

STATIC_ASSETS ==
    { "/", "/index.html", "/manifest.json", "/css/styles.css", "/js/app.js",
      "/js/solver.js", "/js/csv-parser.js", "/js/bng-converter.js",
      "/js/route-card.js", "/js/gpx-export.js", "/js/github-loader.js",
      "/js/storage.js", "/js/distance-calc.js", "/icons/icon-192.png",
      "/icons/icon-512.png" }

DataHost == "raw.githubusercontent.com"

\* a request: its URL, the URL's hostname, whether the URL's origin is the
\* worker's, request.mode and request.method
Request(url, hostname, sameOrigin, mode, method) ==
    [url |-> url, hostname |-> hostname, sameOrigin |-> sameOrigin,
     mode |-> mode, method |-> method]

\* the requests the pages send
Requests ==
    { Request("/index.html", "app", TRUE, "navigate", "GET"),
      Request("/js/solver.js", "app", TRUE, "no-cors", "GET"),
      Request("/results", "app", TRUE, "navigate", "GET"),
      Request("/favicon.ico", "app", TRUE, "no-cors", "GET"),
      Request("/report", "app", TRUE, "cors", "POST"),
      Request("https://fonts.example/font.css", "fonts.example", FALSE,
              "no-cors", "GET"),
      Request("https://raw.githubusercontent.com/2024/Openings.csv",
              DataHost, FALSE, "cors", "GET"),
      Request("https://raw.githubusercontent.com/2024/Distances.csv",
              DataHost, FALSE, "cors", "GET") }

\* key.url.includes('raw.githubusercontent.com'), for the URLs of Requests
IsDataUrl(url) == \E r \in Requests : r.url = url /\ r.hostname = DataHost

\* the outcomes of fetch(request): a response with ok, one without, a failure
NetworkOutcomes == {"ok", "notOk", "failed"}

\* caches.match(request) / cache.match(request): true when a response is found
CacheMatch(cache, request) == request.method = "GET" /\ request.url \in cache

\* the catch of the static branch, for requests of every mode
OfflineFallbackNoIndex(cache, request) == "offline503"

\* the catch of the static branch: the cached /index.html for a navigation
\* ("undefined" when it is not cached), the 503 response otherwise
OfflineFallback(cache, request) ==
    IF request.mode = "navigate"
    THEN IF "/index.html" \in cache THEN "index" ELSE "undefined"
    ELSE "offline503"

\* the state of one fetch event: its request, where its handler stands, what
\* fetch(request) gave and what respondWith answered
FetchHandler(request) ==
    [request |-> request,
     pc |-> IF request.hostname = DataHost THEN "dataMatch" ELSE "match",
     network |-> "none", response |-> "none"]

\* a new worker version has been registered on an empty cache storage
InitWorker ==
    /\ worker = [state |-> "installing", cache |-> {}, events |-> <<>>,
                 clear |-> [pc |-> "idle", keys |-> {}], clears |-> 0,
                 cleared |-> FALSE]
    /\ app = NoApp
    /\ pc = "config"
    /\ data = [checkpoints |-> <<>>, startTime |-> 0,
               finishWindow |-> Slot(0, 0), distances |-> <<>>]
    /\ config = [speed |-> 0, dwellTime |-> 0, excludedCps |-> {}]
    /\ calls = 0
    /\ search = NoSearch
    /\ probe = NoProbe
    /\ visitableCps = <<>>
    /\ startCp = ""
    /\ finishCp = ""
    /\ dp = <<>>
    /\ parent = <<>>
    /\ i = 0
    /\ mask = 0
    /\ last = 0
    /\ bestMask = 0
    /\ bestLast = -1
    /\ bestFinishTime = INF
    /\ bestCount = 0
    /\ result = NoResult
    /\ legs = <<>>

\* the install listener: cache.addAll(STATIC_ASSETS) caches all or nothing;
\* on success the worker skips waiting and controls the pages
Install ==
    /\ worker.state = "installing"
    /\ \E ok \in BOOLEAN :
           worker' = IF ok
                     THEN [worker EXCEPT !.state = "activated",
                                         !.cache = @ \cup STATIC_ASSETS]
                     ELSE [worker EXCEPT !.state = "redundant"]
    /\ UNCHANGED <<app, data, config, pc, visitableCps, startCp, finishCp, dp,
                   parent, i, mask, last, bestMask, bestLast, bestFinishTime,
                   bestCount, result, legs, calls, search, probe>>

\* a fetch event arrives; a data request ends the quiet after a clear
FetchEvent ==
    /\ worker.state = "activated"
    /\ Len(worker.events) < MaxEvents
    /\ \E r \in Requests :
           worker' = [worker EXCEPT
                        !.events = Append(@, FetchHandler(r)),
                        !.cleared = IF r.hostname = DataHost THEN FALSE ELSE @]
    /\ UNCHANGED <<app, data, config, pc, visitableCps, startCp, finishCp, dp,
                   parent, i, mask, last, bestMask, bestLast, bestFinishTime,
                   bestCount, result, legs, calls, search, probe>>

\* static branch: caches.match(request) resolves
StaticMatch ==
    /\ \E k \in DOMAIN worker.events :
           /\ worker.events[k].pc = "match"
           /\ worker' = IF CacheMatch(worker.cache, worker.events[k].request)
                        THEN [worker EXCEPT !.events[k].pc = "done",
                                            !.events[k].response = "cache"]
                        ELSE [worker EXCEPT !.events[k].pc = "fetch"]
    /\ UNCHANGED <<app, data, config, pc, visitableCps, startCp, finishCp, dp,
                   parent, i, mask, last, bestMask, bestLast, bestFinishTime,
                   bestCount, result, legs, calls, search, probe>>

\* static branch: fetch(request) settles
StaticFetch ==
    /\ \E k \in DOMAIN worker.events, outcome \in NetworkOutcomes :
           LET r == worker.events[k].request IN
           /\ worker.events[k].pc = "fetch"
           /\ worker' =
                IF outcome = "failed"
                THEN [worker EXCEPT
                        !.events[k].pc = "done",
                        !.events[k].network = outcome,
                        !.events[k].response = OfflineFallback(worker.cache, r)]
                ELSE [worker EXCEPT
                        !.events[k].pc =
                            IF r.method # "GET" \/ ~r.sameOrigin
                            THEN "done"
                            ELSE IF outcome = "ok" THEN "put" ELSE "done",
                        !.events[k].network = outcome,
                        !.events[k].response = "network"]
    /\ UNCHANGED <<app, data, config, pc, visitableCps, startCp, finishCp, dp,
                   parent, i, mask, last, bestMask, bestLast, bestFinishTime,
                   bestCount, result, legs, calls, search, probe>>

\* static branch: caches.open(CACHE_NAME) resolves and the copy is put
StaticPut ==
    /\ \E k \in DOMAIN worker.events :
           /\ worker.events[k].pc = "put"
           /\ worker' = [worker EXCEPT
                           !.events[k].pc = "done",
                           !.cache = @ \cup {worker.events[k].request.url}]
    /\ UNCHANGED <<app, data, config, pc, visitableCps, startCp, finishCp, dp,
                   parent, i, mask, last, bestMask, bestLast, bestFinishTime,
                   bestCount, result, legs, calls, search, probe>>

\* data branch: cache.match(request) resolves; a hit is answered at once and
\* a fetch is started in the background
DataMatch ==
    /\ \E k \in DOMAIN worker.events :
           /\ worker.events[k].pc = "dataMatch"
           /\ worker' = IF CacheMatch(worker.cache, worker.events[k].request)
                        THEN [worker EXCEPT !.events[k].pc = "revalidate",
                                            !.events[k].response = "cache"]
                        ELSE [worker EXCEPT !.events[k].pc = "dataFetch"]
    /\ UNCHANGED <<app, data, config, pc, visitableCps, startCp, finishCp, dp,
                   parent, i, mask, last, bestMask, bestLast, bestFinishTime,
                   bestCount, result, legs, calls, search, probe>>

\* data branch: the background fetch settles; an ok response is put
DataRevalidate ==
    /\ \E k \in DOMAIN worker.events, outcome \in NetworkOutcomes :
           /\ worker.events[k].pc = "revalidate"
           /\ worker' = [worker EXCEPT
                           !.events[k].pc = "done",
                           !.events[k].network = outcome,
                           !.cache = IF outcome = "ok"
                                     THEN @ \cup {worker.events[k].request.url}
                                     ELSE @]
    /\ UNCHANGED <<app, data, config, pc, visitableCps, startCp, finishCp, dp,
                   parent, i, mask, last, bestMask, bestLast, bestFinishTime,
                   bestCount, result, legs, calls, search, probe>>

\* data branch: the fetch of an uncached request settles
DataFetch ==
    /\ \E k \in DOMAIN worker.events, outcome \in NetworkOutcomes :
           /\ worker.events[k].pc = "dataFetch"
           /\ worker' = [worker EXCEPT
                           !.events[k].pc = "done",
                           !.events[k].network = outcome,
                           !.events[k].response =
                               IF outcome = "failed" THEN "error" ELSE "network",
                           !.cache = IF outcome = "ok"
                                     THEN @ \cup {worker.events[k].request.url}
                                     ELSE @]
    /\ UNCHANGED <<app, data, config, pc, visitableCps, startCp, finishCp, dp,
                   parent, i, mask, last, bestMask, bestLast, bestFinishTime,
                   bestCount, result, legs, calls, search, probe>>

\* the message listener receives CLEAR_DATA_CACHE and opens the cache
ClearMessage ==
    /\ worker.state = "activated"
    /\ worker.clear.pc = "idle"
    /\ worker.clears < MaxClears
    /\ worker' = [worker EXCEPT !.clear = [pc |-> "keys", keys |-> {}],
                                !.clears = @ + 1]
    /\ UNCHANGED <<app, data, config, pc, visitableCps, startCp, finishCp, dp,
                   parent, i, mask, last, bestMask, bestLast, bestFinishTime,
                   bestCount, result, legs, calls, search, probe>>

\* cache.keys() resolves with the keys the cache holds now
ClearKeys ==
    /\ worker.clear.pc = "keys"
    /\ worker' = [worker EXCEPT
                    !.clear = [pc |-> "delete",
                               keys |-> { u \in worker.cache : IsDataUrl(u) }]]
    /\ UNCHANGED <<app, data, config, pc, visitableCps, startCp, finishCp, dp,
                   parent, i, mask, last, bestMask, bestLast, bestFinishTime,
                   bestCount, result, legs, calls, search, probe>>

\* the deletes of the listed data keys complete: the message is handled
ClearDelete ==
    /\ worker.clear.pc = "delete"
    /\ worker' = [worker EXCEPT !.cache = @ \ worker.clear.keys,
                                !.clear = [pc |-> "idle", keys |-> {}],
                                !.cleared = TRUE]
    /\ UNCHANGED <<app, data, config, pc, visitableCps, startCp, finishCp, dp,
                   parent, i, mask, last, bestMask, bestLast, bestFinishTime,
                   bestCount, result, legs, calls, search, probe>>

NextWorker ==
    \/ Install
    \/ FetchEvent
    \/ StaticMatch
    \/ StaticFetch
    \/ StaticPut
    \/ DataMatch
    \/ DataRevalidate
    \/ DataFetch
    \/ ClearMessage
    \/ ClearKeys
    \/ ClearDelete

SpecWorker == InitWorker /\ [][NextWorker]_vars


\* the fetch events that have been answered
Answered == { k \in DOMAIN worker.events : worker.events[k].response # "none" }

\* C21: once the install handler has completed with every STATIC_ASSETS entry
\* cached, every static asset stays cached, a fetch event for a static asset
\* is answered from the cache whatever the network does, and a navigation
\* request that is not cached and whose fetch fails is answered with the
\* cached /index.html, never with an error.
C21_WorksOffline ==
    worker.state = "activated" =>
        /\ STATIC_ASSETS \subseteq worker.cache
        /\ \A k \in DOMAIN worker.events :
               LET e == worker.events[k] IN
               /\ (e.request.url \in STATIC_ASSETS /\ e.request.method = "GET") =>
                      /\ e.pc \in {"match", "done"}
                      /\ e.network = "none"
                      /\ k \in Answered => e.response = "cache"
               /\ (e.request.mode = "navigate" /\ e.network = "failed") =>
                      e.response = "index"

\* a static asset has been answered from the cache and a navigation to an
\* uncached page has been answered with /index.html after its fetch failed
C21_Witness ==
    /\ worker.state = "activated"
    /\ \E k \in Answered :
           /\ worker.events[k].request.url \in STATIC_ASSETS
           /\ worker.events[k].request.mode # "navigate"
           /\ worker.events[k].response = "cache"
    /\ \E k \in Answered :
           /\ worker.events[k].request.mode = "navigate"
           /\ worker.events[k].request.url \notin STATIC_ASSETS
           /\ worker.events[k].network = "failed"
           /\ worker.events[k].response = "index"

\* C29: after the worker has finished handling a CLEAR_DATA_CACHE message the
\* cache holds no raw.githubusercontent.com entry until a new fetch event for
\* such a URL arrives.
C29_NoDataAfterClear ==
    worker.cleared => \A u \in worker.cache : ~IsDataUrl(u)

\* a clear has been handled while a background revalidation was in flight
C29_Witness ==
    /\ worker.cleared
    /\ \E u \in worker.cache : IsDataUrl(u)
    /\ \E k \in DOMAIN worker.events :
           /\ worker.events[k].request.hostname = DataHost
           /\ worker.events[k].response = "cache"
           /\ worker.events[k].pc = "done"
           /\ worker.events[k].network = "ok"

=============================================================================
